---- MODULE Spec2Model ----
(***************************************************************************)
(* Model of the DDS tracing middleware (include/traced_dds.hpp):           *)
(* traced::Writer::write, traced::Reader::take, the thread-local active    *)
(* trace context, and the hex codec of trace and span identifiers.         *)
(*                                                                         *)
(* Identifiers are byte sequences (TraceId 16 bytes, SpanId 8 bytes), the  *)
(* wire form is a sequence of characters.  The OpenTelemetry tracer is     *)
(* modelled by what the calls in the header do: StartSpan takes the        *)
(* explicit parent when it is valid, else the span that is current on the  *)
(* calling thread (the innermost WithActiveSpan scope), else starts a new  *)
(* trace; SetStatus and End are no-ops on an ended span; a span whose last *)
(* handle is released is ended.                                            *)
(***************************************************************************)
EXTENDS Integers, Sequences, FiniteSets, TLC

VARIABLES
    live,               \* threads that run in this system
    nextTrace,          \* trace ids handed out so far by the tracer's id generator
    nextSpan,           \* span ids handed out so far by the tracer's id generator
    spans,              \* the spans some handle still refers to, by handle
    exported,           \* the spans handed to the exporter in the last step
    g_active_trace_id,  \* thread_local std::string, per thread
    g_active_span_id,   \* thread_local std::string, per thread
    trace_id_buf,       \* thread_local char[33], per thread
    span_id_buf,        \* thread_local char[17], per thread
    scopes,             \* per thread: stack of spans made current by WithActiveSpan
    stack,              \* per thread: the Reader::take calls in progress, outermost first
    topics,             \* the transport: per topic, the samples not yet taken
    lastWrite,          \* per thread: what the Writer::write that just returned did
    lastTake,           \* per thread: how the Reader::take that was just left went
    codec,              \* the last call of a codec function on its own: arguments and result
    fusion,             \* the locals of main of the track-fusion service
    env,                \* the clock, and the source tracks the sensor services published
    init                \* g_initialized, g_tracer, the static AutoInit instance, and each
                        \* thread's position in ensure_init

vars == <<live, nextTrace, nextSpan, spans, exported, g_active_trace_id, g_active_span_id, trace_id_buf,
          span_id_buf, scopes, stack, topics, lastWrite, lastTake, codec, fusion, env, init>>

\* the state of the tracing layer of one process
progVars == <<live, nextTrace, nextSpan, spans, exported, g_active_trace_id, g_active_span_id,
              trace_id_buf, span_id_buf, scopes, stack, topics, lastWrite, lastTake>>

----------------------------------------------------------------------------
(* Bounds of the model *)

MaxSpans == 5      \* spans started
MaxTraces == 2     \* traces started
MaxQueue == 2      \* samples waiting in one topic
MaxInvalid == 1    \* entries without data in one batch
MaxTracks == 3     \* source tracks the sensor services publish
MaxClock == 6      \* seconds the clock runs
MaxUses == 2       \* Writer and Reader objects one thread constructs
MaxCalls == 2      \* calls of do_init and do_shutdown from outside ensure_init

(* Program constants *)

MAX_SAMPLES == 10
TRACE_HEX_LEN == 32
SPAN_HEX_LEN == 16
FUSION_WINDOW_SEC == 3

Threads == {"main", "worker"}
Topics == {"MissionOrderTopic", "ReconReportTopic"}
FusionTopics == {"SourceTrackTopic", "TacticalTrackTopic"}

----------------------------------------------------------------------------
(* ContextCodec: trace_id_to_hex, span_id_to_hex, hex_to_trace_id,         *)
(* hex_to_span_id                                                          *)

HexDigits == <<"0", "1", "2", "3", "4", "5", "6", "7",
               "8", "9", "a", "b", "c", "d", "e", "f">>

UpperDigits == <<"0", "1", "2", "3", "4", "5", "6", "7",
                 "8", "9", "A", "B", "C", "D", "E", "F">>

\* the characters the %x conversion of sscanf accepts, with their values
HexTable ==
    [c \in {HexDigits[v] : v \in 1..16} \cup {UpperDigits[v] : v \in 1..16} |->
        (CHOOSE v \in 1..16 : HexDigits[v] = c \/ UpperDigits[v] = c) - 1]

IsHexChar(c) == c \in DOMAIN HexTable

\* the upper-case form of the hexadecimal letters
ToUpper == [c \in {HexDigits[v] : v \in 11..16} |->
                UpperDigits[CHOOSE v \in 11..16 : HexDigits[v] = c]]

HexValue(c) == HexTable[c]

ZeroBytes(n) == [i \in 1..n |-> 0]

\* the bug of an encoder that writes upper-case digits
ToLowerBase16_Upper(id) ==
    [k \in 1..(2 * Len(id)) |->
        IF k % 2 = 1 THEN UpperDigits[(id[(k + 1) \div 2] \div 16) + 1]
                     ELSE UpperDigits[(id[k \div 2] % 16) + 1]]

\* TraceId::ToLowerBase16 / SpanId::ToLowerBase16: two lowercase digits per byte
ToLowerBase16(id) ==
    [k \in 1..(2 * Len(id)) |->
        IF k % 2 = 1 THEN HexDigits[(id[(k + 1) \div 2] \div 16) + 1]
                     ELSE HexDigits[(id[k \div 2] % 16) + 1]]

\* the identifiers the id generator can draw within the bounds, and the
\* absent identifier (all zero), of both widths
DrawnIds ==
    {[i \in 1..n |-> IF i = n THEN k ELSE 0] :
        k \in 0..MaxSpans, n \in {TRACE_HEX_LEN \div 2, SPAN_HEX_LEN \div 2}}

\* ToLowerBase16 over DrawnIds, evaluated once
EncodeTable == [id \in DrawnIds |-> ToLowerBase16(id)]

trace_id_to_hex(id) == IF id \in DrawnIds THEN EncodeTable[id] ELSE ToLowerBase16(id)

span_id_to_hex(id) == IF id \in DrawnIds THEN EncodeTable[id] ELSE ToLowerBase16(id)

\* the bug of a conversion that reads one digit per byte ("%1hhx")
ScanByte_OneDigit(hex, i, junk) ==
    IF IsHexChar(hex[2 * i - 1]) THEN HexValue(hex[2 * i - 1]) ELSE junk[i]

\* sscanf(hex + i*2, "%2hhx", &buf[i]): reads at most two hex digits; when the
\* first character is no hex digit nothing is stored and buf[i] keeps the
\* uninitialized value junk[i].
ScanByte(hex, i, junk) ==
    LET c1 == hex[2 * i - 1]
        c2 == hex[2 * i]
    IN  IF ~IsHexChar(c1) THEN junk[i]
        ELSE IF ~IsHexChar(c2) THEN HexValue(c1)
        ELSE 16 * HexValue(c1) + HexValue(c2)

\* the sscanf loop over the strings that encode DrawnIds, evaluated once
\* (every byte of these is stored, so the buffer contents do not matter)
DecodeTable ==
    [hex \in {ToLowerBase16(id) : id \in DrawnIds} |->
        [i \in 1..(Len(hex) \div 2) |-> ScanByte(hex, i, ZeroBytes(Len(hex) \div 2))]]

hex_to_trace_id(hex, junk) ==
    IF Len(hex) # TRACE_HEX_LEN THEN ZeroBytes(TRACE_HEX_LEN \div 2)
    ELSE IF hex \in DOMAIN DecodeTable THEN DecodeTable[hex]
    ELSE [i \in 1..(TRACE_HEX_LEN \div 2) |-> ScanByte(hex, i, junk)]

hex_to_span_id(hex, junk) ==
    IF Len(hex) # SPAN_HEX_LEN THEN ZeroBytes(SPAN_HEX_LEN \div 2)
    ELSE IF hex \in DOMAIN DecodeTable THEN DecodeTable[hex]
    ELSE [i \in 1..(SPAN_HEX_LEN \div 2) |-> ScanByte(hex, i, junk)]

\* contents an uninitialized uint8_t buf[16] can have
StackJunk == {ZeroBytes(16), [i \in 1..16 |-> 171]}

\* TRUE when decoding hex reads a byte that sscanf did not store
ReadsUninit(hex) ==
    /\ Len(hex) \in {TRACE_HEX_LEN, SPAN_HEX_LEN}
    /\ \E i \in 1..(Len(hex) \div 2) : ~IsHexChar(hex[2 * i - 1])

\* the contents of the uninitialized buffers that decoding the strings hexes
\* can observe
Uninit(hexes) ==
    IF \E h \in hexes : ReadsUninit(h) THEN StackJunk ELSE {ZeroBytes(16)}

----------------------------------------------------------------------------
(* The codec functions called on their own *)

\* byte values the identifiers given to the codec are made of
SampleBytes == {0, 1, 171, 255}

\* identifiers of n bytes: any sample byte first, second and last, zero between
SampleIds(n) ==
    {[i \in 1..n |-> IF i = 1 THEN a ELSE IF i = 2 THEN b ELSE IF i = n THEN c ELSE 0] :
        a \in SampleBytes, b \in SampleBytes, c \in SampleBytes}

\* characters that are no hexadecimal digit (and that sscanf neither skips
\* nor reads as a sign or a prefix)
OtherChars == {"g", "z"}

\* exactly len hexadecimal characters
WellFormed(hex, len) == Len(hex) = len /\ \A i \in 1..len : IsHexChar(hex[i])

\* strings given to a decoder of len characters: encodings of identifiers,
\* in lower and in upper case, the empty string, encodings cut short by one
\* character or longer by one, and encodings with one character replaced by
\* another character
CodecStrings(len) ==
    LET good == {ToLowerBase16(id) : id \in SampleIds(len \div 2)}
    IN  good
        \cup {[i \in 1..len |-> IF h[i] \in DOMAIN ToUpper THEN ToUpper[h[i]] ELSE h[i]] :
                    h \in good}
        \cup {<<>>}
        \cup {SubSeq(h, 1, len - 1) : h \in good}
        \cup {h \o <<"0">> : h \in good}
        \cup {[h EXCEPT ![p] = c] : h \in good, p \in 1..len, c \in OtherChars}

NoCodec == [call |-> "none", len |-> 0, arg |-> <<>>, hex |-> <<>>, id |-> <<>>]

\* hex_to_trace_id(hex) or hex_to_span_id(hex) called on a string
Decode(len, hex, junk) ==
    /\ codec = NoCodec
    /\ codec' = [call |-> "decode", len |-> len, arg |-> <<>>, hex |-> hex,
                 id |-> IF len = TRACE_HEX_LEN THEN hex_to_trace_id(hex, junk)
                        ELSE hex_to_span_id(hex, junk)]
    /\ UNCHANGED <<progVars, fusion, env, init>>

\* trace_id_to_hex or span_id_to_hex called on an identifier, and the decoder
\* called on the string it wrote
EncodeDecode(len, id, junk) ==
    LET hex == IF len = TRACE_HEX_LEN THEN trace_id_to_hex(id) ELSE span_id_to_hex(id)
    IN  /\ codec = NoCodec
        /\ codec' = [call |-> "encode_decode", len |-> len, arg |-> id, hex |-> hex,
                     id |-> IF len = TRACE_HEX_LEN THEN hex_to_trace_id(hex, junk)
                            ELSE hex_to_span_id(hex, junk)]
        /\ UNCHANGED <<progVars, fusion, env, init>>

----------------------------------------------------------------------------
(* The tracer *)

NoTraceId == ZeroBytes(TRACE_HEX_LEN \div 2)
NoSpanId == ZeroBytes(SPAN_HEX_LEN \div 2)

\* the k-th identifier the id generator draws, n bytes wide
IdBytes(k, n) == [i \in 1..n |-> IF i = n THEN k ELSE 0]

\* trace_api::SpanContext(trace_id, span_id, kIsSampled, true)
SpanContext(trace_id, span_id) == [trace_id |-> trace_id, span_id |-> span_id]

InvalidContext == SpanContext(NoTraceId, NoSpanId)

\* SpanContext::IsValid
IsValid(ctx) == ctx.trace_id # NoTraceId /\ ctx.span_id # NoSpanId

\* the span that is current on thread t: the innermost WithActiveSpan scope
CurrentContext(sps, sc) ==
    IF sc = <<>> THEN InvalidContext
    ELSE SpanContext(sps[sc[Len(sc)]].trace_id, sps[sc[Len(sc)]].span_id)

\* the bug of a span that takes its parent from the options only, never from
\* the span that is current on the thread
EffectiveParent_ExplicitOnly(parent_ctx, sps, sc) == parent_ctx

\* the parent Tracer::StartSpan gives a span: options.parent when it is valid,
\* else the current span
EffectiveParent(parent_ctx, sps, sc) ==
    IF IsValid(parent_ctx) THEN parent_ctx ELSE CurrentContext(sps, sc)

\* trace ids Tracer::StartSpan draws from the id generator
TracesNeeded(parent_ctx, sps, sc) ==
    IF IsValid(EffectiveParent(parent_ctx, sps, sc)) THEN 0 ELSE 1

\* Tracer::StartSpan(name, opts): the span record; a span without valid parent
\* starts a new trace.  by_handler records the status a take callback gave the
\* span (history, not program state)
StartSpan(kind, thread, parent_ctx, sps, sc, traces, ids) ==
    LET p == EffectiveParent(parent_ctx, sps, sc)
    IN  IF IsValid(p)
        THEN [kind |-> kind, thread |-> thread, trace_id |-> p.trace_id,
              span_id |-> IdBytes(ids + 1, SPAN_HEX_LEN \div 2),
              parent |-> p.span_id, status |-> "unset", description |-> "",
              ended |-> FALSE, by_handler |-> "unset", handler_end |-> "none"]
        ELSE [kind |-> kind, thread |-> thread,
              trace_id |-> IdBytes(traces + 1, TRACE_HEX_LEN \div 2),
              span_id |-> IdBytes(ids + 1, SPAN_HEX_LEN \div 2),
              parent |-> NoSpanId, status |-> "unset", description |-> "",
              ended |-> FALSE, by_handler |-> "unset", handler_end |-> "none"]

\* the bug of a status that is still written once the span has ended
SetStatus_AfterEnd(sp, code, description) ==
    [sp EXCEPT !.status = code, !.description = description]

\* the bug of a context that names the span's parent instead of the span
GetContext_OfParent(sp) == SpanContext(sp.trace_id, sp.parent)

\* Span::GetContext: the trace id of the span and its own span id
GetContext(sp) == SpanContext(sp.trace_id, sp.span_id)

\* Span::SetStatus: overwrites the status unless the span has ended
SetStatus(sp, code, description) ==
    IF sp.ended THEN sp
    ELSE [sp EXCEPT !.status = code, !.description = description]

\* Span::End: idempotent
End(sp) == [sp EXCEPT !.ended = TRUE]

\* what the span processor hands to the exporter when a call turns the span
\* before into the span after: the span, when that call ended it
Exports(before, after) == IF ~before.ended /\ after.ended THEN <<after>> ELSE <<>>

\* the table of spans with the span of handle h put in
PutSpan(sps, h, sp) == [k \in DOMAIN sps \cup {h} |-> IF k = h THEN sp ELSE sps[k]]

\* the table of spans once no handle refers to the span of handle h
DropSpan(sps, h) == [k \in DOMAIN sps \ {h} |-> sps[k]]

\* the bug of a span that is kept alive and never ended
ReleaseSpan_Leak(sp) == sp

\* the local handle `span` and the scope go out of scope, at the end of a loop
\* iteration or when an exception unwinds the frame: the tracer ends a span
\* whose last handle is released
ReleaseSpan(sp) == End(sp)

----------------------------------------------------------------------------
(* Messages and the transport *)

\* the trace_ctx field of a message (TraceContextAccessor<T>::get)
TraceCtx(trace_id, span_id, parent_span_id, trace_flags) ==
    [trace_id |-> trace_id, span_id |-> span_id,
     parent_span_id |-> parent_span_id, trace_flags |-> trace_flags]

EmptyCtx == TraceCtx(<<>>, <<>>, <<>>, 0)

\* the bug of one variable shared by all threads
ThreadLocal_Shared(f, t, v) == [u \in Threads |-> v]

\* the assignment of v by thread t to a thread_local variable, f giving each
\* thread's instance
ThreadLocal(f, t, v) == [f EXCEPT ![t] = v]

\* a sample in a topic: valid is dds_sample_info_t::valid_data; chain records
\* the trace_id assigned by the root publish of the chain of hops the message
\* belongs to (history, not program state)
Sample(valid, tc, chain) == [valid |-> valid, trace_ctx |-> tc, chain |-> chain]

InvalidSample == Sample(FALSE, EmptyCtx, NoTraceId)

\* values dds_write returns: DDS_RETCODE_OK or a negative error code
dds_write_results == {0, -1}

\* a batch with one more entry without data, at any position
WithInvalid(batch) ==
    {SubSeq(batch, 1, p) \o <<InvalidSample>> \o SubSeq(batch, p + 1, Len(batch)) :
        p \in 0..Len(batch)}

\* the batches dds_take can fill from the queued samples q with k entries
\* without data among them
RECURSIVE BatchesWith(_, _)
BatchesWith(q, k) ==
    IF k = 0 THEN {q} ELSE UNION {WithInvalid(b) : b \in BatchesWith(q, k - 1)}


\* the bug of a dds_take that is not told the size of the arrays
dds_take_results_Unbounded(q) ==
    {[n |-> -1, batch |-> <<>>]} \cup
    UNION {{[n |-> Len(b), batch |-> b] : b \in BatchesWith(q, k)} : k \in 0..MaxInvalid}

\* what dds_take(reader_, samples_, infos, MAX_SAMPLES, MAX_SAMPLES) can give
\* for a topic holding the samples q: a negative error code, or the number n
\* of entries filled, at most MAX_SAMPLES, the queued samples in order with
\* entries without data (valid_data false) among them
dds_take_results(q) ==
    {[n |-> -1, batch |-> <<>>]} \cup
    UNION {{[n |-> Len(b), batch |-> b] :
                b \in BatchesWith(SubSeq(q, 1, IF Len(q) < MAX_SAMPLES - k THEN Len(q) ELSE MAX_SAMPLES - k), k)} :
           k \in 0..MaxInvalid}

\* the data samples in a batch
DataCount(batch) == Cardinality({k \in 1..Len(batch) : batch[k].valid})

----------------------------------------------------------------------------
(* Initialization: do_init, do_shutdown, AutoInit, get_auto_init, ensure_init *)

\* getenv gives a null pointer for a variable that is not set
Unset == "(null)"

\* the environment the services are deployed with, and the environments of a
\* process: the two variables set, or neither
DeployedEnviron ==
    [TRACED_SERVICE_NAME |-> "my-service",
     OTEL_EXPORTER_OTLP_ENDPOINT |-> "http://otel-collector:4318/v1/traces"]

Environs ==
    {DeployedEnviron, [TRACED_SERVICE_NAME |-> Unset, OTEL_EXPORTER_OTLP_ENDPOINT |-> Unset]}

\* before the first use: g_initialized false, g_tracer null, the static
\* AutoInit instance of get_auto_init not constructed.  guard is the state of
\* that function-local static: "none", "running" while one thread runs its
\* constructor, "done".  pc is each thread's position: "out" outside
\* ensure_init, "enter" at the declaration of the static, "wait" blocked on it,
\* "do_init" at the test of g_initialized, "body" and "flag" inside do_init,
\* "constructed" at the end of the constructor, "return" at the return of
\* ensure_init.  runs (how often the body of do_init was entered), uses,
\* waited, and result (what ensure_init last returned) record history.
\* g_service_name is empty and the global tracer provider is the no-op
\* provider of the API; endpoint is the url the exporter was created with;
\* environ is the environment of the process; inits and shutdowns count the
\* calls of do_init and do_shutdown made from outside ensure_init (history)
NoInit ==
    [g_initialized |-> FALSE, g_tracer |-> "null", guard |-> "none", runs |-> 0,
     pc |-> [t \in Threads |-> "out"], uses |-> [t \in Threads |-> 0],
     waited |-> [t \in Threads |-> FALSE], result |-> [t \in Threads |-> FALSE],
     g_service_name |-> "", endpoint |-> "", provider |-> "noop",
     environ |-> DeployedEnviron, inits |-> 0, shutdowns |-> 0]

\* const char* service_name = getenv("TRACED_SERVICE_NAME");
\* if (!service_name) service_name = "unknown-service"
ServiceName(environ) ==
    IF environ.TRACED_SERVICE_NAME = Unset THEN "unknown-service"
    ELSE environ.TRACED_SERVICE_NAME

\* const char* otlp_endpoint = getenv("OTEL_EXPORTER_OTLP_ENDPOINT");
\* if (!otlp_endpoint) otlp_endpoint = "http://localhost:4318/v1/traces"
Endpoint(environ) ==
    IF environ.OTEL_EXPORTER_OTLP_ENDPOINT = Unset THEN "http://localhost:4318/v1/traces"
    ELSE environ.OTEL_EXPORTER_OTLP_ENDPOINT

\* the body of do_init up to g_tracer = ...->GetTracer(...): the
\* configuration is read from the environment, the exporter, processor and
\* provider are created, the provider is made the global one
Configure(i) ==
    [i EXCEPT !.g_service_name = ServiceName(i.environ),
              !.endpoint = Endpoint(i.environ),
              !.provider = "sdk", !.g_tracer = "tracer"]

\* do_init() as a whole
do_init(i) ==
    IF i.g_initialized THEN i
    ELSE [Configure(i) EXCEPT !.g_initialized = TRUE, !.runs = @ + 1]

\* the bug of a do_shutdown that releases the tracer that write and take use
do_shutdown_ResetTracer(i) ==
    IF ~i.g_initialized THEN i
    ELSE [i EXCEPT !.provider = "null", !.g_tracer = "null", !.g_initialized = FALSE]

\* the bug of a do_shutdown without its test of g_initialized
do_shutdown_Unguarded(i) == [i EXCEPT !.provider = "null", !.g_initialized = FALSE]

\* do_shutdown(): the global provider is replaced by an empty pointer;
\* g_tracer is left as it is
do_shutdown(i) ==
    IF ~i.g_initialized THEN i
    ELSE [i EXCEPT !.provider = "null", !.g_initialized = FALSE]

\* after main constructed its Writer and Reader objects
Initialized == [do_init(NoInit) EXCEPT !.guard = "done"]

\* the bug of a hand-written flag instead of the static: a thread that finds
\* the construction started does not wait for it
StaticLocal_NoWait(guard) == IF guard = "none" THEN "construct" ELSE "skip"

\* what a thread does at the declaration "static AutoInit instance": the
\* first one constructs it, one that arrives while it is being constructed
\* waits for the construction to complete, later ones pass
StaticLocal(guard) ==
    IF guard = "none" THEN "construct" ELSE IF guard = "running" THEN "wait" ELSE "skip"

\* the constructor of a Writer or a Reader calls internal::ensure_init()
Construct(t) ==
    /\ t \in live
    /\ init.pc[t] = "out"
    /\ init.uses[t] < MaxUses
    /\ init' = [init EXCEPT !.pc[t] = "enter", !.uses[t] = @ + 1]
    /\ UNCHANGED <<progVars, codec, fusion, env>>

\* ensure_init calls get_auto_init, which reaches the static
GetAutoInit(t) ==
    /\ t \in live
    /\ init.pc[t] = "enter"
    /\ init' = IF StaticLocal(init.guard) = "construct"
               THEN [init EXCEPT !.guard = "running", !.pc[t] = "do_init"]
               ELSE IF StaticLocal(init.guard) = "wait"
               THEN [init EXCEPT !.pc[t] = "wait", !.waited[t] = TRUE]
               ELSE [init EXCEPT !.pc[t] = "return"]
    /\ UNCHANGED <<progVars, codec, fusion, env>>

\* a thread that waited goes on when the construction has completed
Wake(t) ==
    /\ t \in live
    /\ init.pc[t] = "wait"
    /\ init.guard = "done"
    /\ init' = [init EXCEPT !.pc[t] = "return"]
    /\ UNCHANGED <<progVars, codec, fusion, env>>

\* AutoInit() calls do_init: if (g_initialized) return
DoInitTest(t) ==
    /\ t \in live
    /\ init.pc[t] = "do_init"
    /\ init' = IF init.g_initialized
               THEN [init EXCEPT !.pc[t] = "constructed"]
               ELSE [init EXCEPT !.pc[t] = "body", !.runs = @ + 1]
    /\ UNCHANGED <<progVars, codec, fusion, env>>

\* the body of do_init up to g_tracer = ...->GetTracer(...)
DoInitBody(t) ==
    /\ t \in live
    /\ init.pc[t] = "body"
    /\ init' = [Configure(init) EXCEPT !.pc[t] = "flag"]
    /\ UNCHANGED <<progVars, codec, fusion, env>>

\* g_initialized = true, and do_init returns
DoInitFlag(t) ==
    /\ t \in live
    /\ init.pc[t] = "flag"
    /\ init' = [init EXCEPT !.g_initialized = TRUE, !.pc[t] = "constructed"]
    /\ UNCHANGED <<progVars, codec, fusion, env>>

\* the constructor of the static returns: its construction is complete
Constructed(t) ==
    /\ t \in live
    /\ init.pc[t] = "constructed"
    /\ init' = [init EXCEPT !.guard = "done", !.pc[t] = "return"]
    /\ UNCHANGED <<progVars, codec, fusion, env>>

\* return g_initialized
EnsureInitReturn(t) ==
    /\ t \in live
    /\ init.pc[t] = "return"
    /\ init' = [init EXCEPT !.result[t] = init.g_initialized, !.pc[t] = "out"]
    /\ UNCHANGED <<progVars, codec, fusion, env>>

\* the threads of a process construct their Writer and Reader objects
NextInit ==
    \/ \E t \in Threads : Construct(t)
    \/ \E t \in Threads : GetAutoInit(t)
    \/ \E t \in Threads : Wake(t)
    \/ \E t \in Threads : DoInitTest(t)
    \/ \E t \in Threads : DoInitBody(t)
    \/ \E t \in Threads : DoInitFlag(t)
    \/ \E t \in Threads : Constructed(t)
    \/ \E t \in Threads : EnsureInitReturn(t)

\* a call of internal::do_init() from outside ensure_init
CallDoInit(t) ==
    /\ t \in live
    /\ init.pc[t] = "out"
    /\ init.inits + init.shutdowns < MaxCalls
    /\ init' = [do_init(init) EXCEPT !.inits = @ + 1]
    /\ UNCHANGED <<progVars, codec, fusion, env>>

\* a call of internal::do_shutdown()
CallDoShutdown(t) ==
    /\ t \in live
    /\ init.pc[t] = "out"
    /\ init.inits + init.shutdowns < MaxCalls
    /\ init' = [do_shutdown(init) EXCEPT !.shutdowns = @ + 1]
    /\ UNCHANGED <<progVars, codec, fusion, env>>

\* the process changes its environment
Setenv(t, e) ==
    /\ t \in live
    /\ init.pc[t] = "out"
    /\ e # init.environ
    /\ init' = [init EXCEPT !.environ = e]
    /\ UNCHANGED <<progVars, codec, fusion, env>>

\* thread t has constructed a Writer or a Reader and is in no constructor
HasObjects(t) == init.uses[t] > 0 /\ init.pc[t] = "out"

----------------------------------------------------------------------------
(* Writer::write *)

\* the bug of a write that never looks at the active trace context
WriteParent_NoContinuation(active_trace, active_span, junk) == InvalidContext

\* the parent context write passes to StartSpan: the active trace context when
\* both thread-local strings are non-empty, none otherwise
WriteParent(active_trace, active_span, junk) ==
    IF active_trace # <<>> /\ active_span # <<>>
    THEN SpanContext(hex_to_trace_id(active_trace, junk),
                     hex_to_span_id(active_span, junk))
    ELSE InvalidContext

\* the bug of an active context that is kept as a pointer to the buffer, which
\* inject writes over
ActiveAfterInject_Aliased(active, buf) == IF active = <<>> THEN active ELSE buf

\* what a thread-local active-context string holds once inject has written
\* buf into the buffer it was assigned from: a std::string, it holds the copy
\* made by the assignment
ActiveAfterInject(active, buf) == active

\* the bug of an inject that leaves alone a message that holds a context
inject_KeepHeld(tc, sp) ==
    IF tc.trace_id # <<>> THEN tc
    ELSE [tc EXCEPT !.trace_id = trace_id_to_hex(sp.trace_id),
                    !.span_id = span_id_to_hex(sp.span_id),
                    !.parent_span_id = <<>>,
                    !.trace_flags = 1]

\* Writer::inject: the four fields of the trace_ctx tc of the outgoing
\* message are overwritten from the span of the write
inject(tc, sp) ==
    [tc EXCEPT !.trace_id = trace_id_to_hex(sp.trace_id),
               !.span_id = span_id_to_hex(sp.span_id),
               !.parent_span_id = <<>>,
               !.trace_flags = 1]

\* the bug of a write that does not look at what dds_write returned
WriteStatus_AlwaysOk(sp, ret) == SetStatus(sp, "ok", "")

\* the status write gives its span after dds_write returned ret
WriteStatus(sp, ret) ==
    IF ret >= 0 THEN SetStatus(sp, "ok", "")
    ELSE SetStatus(sp, "error", "DDS write failed")

\* the bug of a write that leaves the span open on the failure path
WriteFinish_EndOnSuccess(sp, ret) ==
    IF ret >= 0 THEN End(WriteStatus(sp, ret)) ELSE WriteStatus(sp, ret)

\* what write does to its span after dds_write returned ret: the status, then
\* span->End(), on both branches
WriteFinish(sp, ret) == End(WriteStatus(sp, ret))

\* the bug of a write that hides a transport failure
WriteResult_AlwaysTrue(ret) == TRUE

\* the bug of a write that reports a span it could not export as a failure
WriteResult_NeedsExport(ret) == ret >= 0 /\ env.reachable

\* the value write returns
WriteResult(ret) == ret >= 0

Top(t) == stack[t][Len(stack[t])]

InHandler(t) == stack[t] # <<>>

NoSpan ==
    [kind |-> "none", thread |-> "none", trace_id |-> NoTraceId, span_id |-> NoSpanId,
     parent |-> NoSpanId, status |-> "unset", description |-> "", ended |-> FALSE,
     by_handler |-> "unset", handler_end |-> "none"]

NoWrite ==
    [called |-> FALSE, span |-> NoSpan, traces_before |-> 0,
     active_trace |-> <<>>, active_span |-> <<>>, ret |-> 0,
     sent |-> FALSE, result |-> FALSE, held |-> EmptyCtx, trace_ctx |-> EmptyCtx,
     chain |-> NoTraceId]

NoTake ==
    [exit |-> "none", result |-> 0, skipped |-> 0, valid |-> 0, failed |-> FALSE,
     handled |-> 0, started |-> 0, finished |-> 0, span |-> NoSpan, ctx |-> EmptyCtx,
     before_trace |-> <<>>, before_span |-> <<>>,
     after_trace |-> <<>>, after_span |-> <<>>]

\* lastWrite and lastTake describe the call that was left in the last step,
\* which was a step of thread t: no other thread left a call in it
NoCallLeft(t) == [u \in Threads |-> NoWrite]

NoTakeLeft(t) == [u \in Threads |-> NoTake]

\* the bounds of the model leave room for one more write by t on topic tp
WriteWithinBounds(t, tp, junk) ==
    /\ nextSpan < MaxSpans
    /\ nextTrace + TracesNeeded(WriteParent(g_active_trace_id[t], g_active_span_id[t], junk),
                                spans, scopes[t]) <= MaxTraces
    /\ Len(topics[tp]) < MaxQueue

\* writer.write(msg, span_name) on the writer of topic tp, called by thread t
\* from its poll loop or from inside a take handler, with a message whose
\* trace_ctx is held; dds_write returns ret
WriteMsg(t, tp, held, ret, junk) ==
    LET parent_ctx == WriteParent(g_active_trace_id[t], g_active_span_id[t], junk)
        sp == StartSpan("pub", t, parent_ctx, spans, scopes[t], nextTrace, nextSpan)
        tc == inject(held, sp)
        done == WriteFinish(sp, ret)
        chain == IF InHandler(t) THEN Top(t).msg.chain ELSE sp.trace_id
    IN  /\ t \in live
        /\ nextTrace' = nextTrace + TracesNeeded(parent_ctx, spans, scopes[t])
        /\ nextSpan' = nextSpan + 1
        /\ exported' = Exports(sp, done)
        /\ trace_id_buf' =  ThreadLocal(trace_id_buf, t, tc.trace_id)
        /\ span_id_buf' =  ThreadLocal(span_id_buf, t, tc.span_id)
        /\ g_active_trace_id' = ThreadLocal(g_active_trace_id, t,
                                    ActiveAfterInject(g_active_trace_id[t], tc.trace_id))
        /\ g_active_span_id' = ThreadLocal(g_active_span_id, t,
                                    ActiveAfterInject(g_active_span_id[t], tc.span_id))
        /\ topics' = IF ret >= 0
                     THEN [topics EXCEPT ![tp] = Append(@, Sample(TRUE, tc, chain))]
                     ELSE topics
        /\ lastWrite' = [NoCallLeft(t) EXCEPT ![t] =
                [called |-> TRUE, span |-> done, traces_before |-> nextTrace,
                 active_trace |-> g_active_trace_id[t],
                 active_span |-> g_active_span_id[t],
                 ret |-> ret, sent |-> topics'[tp] # topics[tp],
                 result |-> WriteResult(ret), held |-> held,
                 trace_ctx |-> tc, chain |-> chain]]
        /\ lastTake' = NoTakeLeft(t)
        /\ UNCHANGED <<live, spans, scopes, stack, codec, fusion, env, init>>

\* write of a message that the caller has just built: its trace_ctx is empty
Write(t, tp, ret, junk) == WriteMsg(t, tp, EmptyCtx, ret, junk)

----------------------------------------------------------------------------
(* Reader::take *)

\* the parent context take builds from the context embedded in a message
TakeParent(tc, junk) ==
    SpanContext(hex_to_trace_id(tc.trace_id, junk), hex_to_span_id(tc.span_id, junk))

\* what take does to the span of a message after the callback returned
AfterCallback(sp) == End(SetStatus(sp, "ok", ""))

\* a take that clears g_active_trace_id after the callback and forgets
\* g_active_span_id
AfterCallbackActive_TraceOnly(active) ==
    IF Len(active) = SPAN_HEX_LEN THEN active ELSE <<>>

\* what take leaves in one thread-local active-context string after the callback
AfterCallbackActive(active) == <<>>

\* the bug of a loop that does not skip the entries without data
NextValid_NoSkip(entries) == IF entries = <<>> THEN 0 ELSE 1

\* index of the first of the entries with valid_data, 0 when there is none
NextValid(entries) ==
    IF \E j \in 1..Len(entries) : entries[j].valid
    THEN CHOOSE j \in 1..Len(entries) :
            entries[j].valid /\ \A k \in 1..(j - 1) : ~entries[k].valid
    ELSE 0

\* the activation record of one take call on a reader: msg is the message
\* whose callback is running (samples_[i]), rest the entries the loop has not
\* reached yet (i + 1 up to n - 1; none when n is not positive), span the
\* handle of the span of msg, processed the count; handled, started, finished
\* (callbacks invoked, spans started, spans of this call handed to the
\* exporter), valid (the entries with data dds_take filled), failed (dds_take
\* returned an error code) and before_* record history
Frame(reader, batch, n, before_trace, before_span) ==
    [reader |-> reader, msg |-> InvalidSample,
     rest |-> IF n > 0 THEN SubSeq(batch, 1, n) ELSE <<>>,
     valid |-> DataCount(batch), failed |-> n < 0,
     processed |-> 0, span |-> 0, started |-> 0, handled |-> 0, finished |-> 0,
     before_trace |-> before_trace, before_span |-> before_span]

\* skipped: the entries of the batch behind the last message handled
TakeLeft(fr, exit, sp, at, as) ==
    [exit |-> exit, result |-> fr.processed, skipped |-> Len(fr.rest), failed |-> fr.failed,
     valid |-> fr.valid, handled |-> fr.handled, started |-> fr.started,
     ctx |-> fr.msg.trace_ctx, finished |-> fr.finished, span |-> sp,
     before_trace |-> fr.before_trace, before_span |-> fr.before_span,
     after_trace |-> at, after_span |-> as]

\* the for loop of take over the entries fr.rest, up to the next callback invocation
\* or the return: base is the thread's stack below this call, last the span of
\* the message just handled, sps, at, as and sc the spans, the active context
\* and the scopes as they are now
Proceed(t, base, fr, last, sps, at, as, sc, junk) ==
    LET j == NextValid(fr.rest)
    IN  IF j = 0
        THEN \* return processed
             /\ stack' = [stack EXCEPT ![t] = base]
             /\ lastTake' = [NoTakeLeft(t) EXCEPT ![t] = TakeLeft(fr, "return", last, at, as)]
             /\ spans' = sps
             /\ g_active_trace_id' =  ThreadLocal(g_active_trace_id, t, at)
             /\ g_active_span_id' =  ThreadLocal(g_active_span_id, t, as)
             /\ scopes' = [scopes EXCEPT ![t] = sc]
             /\ UNCHANGED <<nextTrace, nextSpan, trace_id_buf, span_id_buf>>
        ELSE \* start the span of message j and call the callback
             LET parent_ctx == TakeParent(fr.rest[j].trace_ctx, junk)
                 sp == StartSpan("sub", t, parent_ctx, sps, sc, nextTrace, nextSpan)
                 ctx == GetContext(sp)
                 h == nextSpan + 1
             IN  /\ nextTrace' = nextTrace + TracesNeeded(parent_ctx, sps, sc)
                 /\ nextSpan' = h
                 /\ spans' = PutSpan(sps, h, sp)
                 /\ scopes' = [scopes EXCEPT ![t] = Append(sc, h)]
                 /\ trace_id_buf' =  ThreadLocal(trace_id_buf, t, trace_id_to_hex(ctx.trace_id))
                 /\ span_id_buf' =  ThreadLocal(span_id_buf, t, span_id_to_hex(ctx.span_id))
                 /\ g_active_trace_id' =
                         ThreadLocal(g_active_trace_id, t, trace_id_to_hex(ctx.trace_id))
                 /\ g_active_span_id' =
                         ThreadLocal(g_active_span_id, t, span_id_to_hex(ctx.span_id))
                 /\ stack' = [stack EXCEPT ![t] = Append(base,
                        [fr EXCEPT !.msg = fr.rest[j],
                                   !.rest = SubSeq(fr.rest, j + 1, Len(fr.rest)),
                                   !.span = h,
                                   !.started = @ + 1, !.handled = @ + 1])]
                 /\ lastTake' = NoTakeLeft(t)

\* the bounds of the model leave room for the span of the next of the entries
\* rest that holds data, if there is one
ProceedWithinBounds(rest, sps, sc, junk) ==
    LET j == NextValid(rest)
    IN  j # 0 =>
            /\ nextSpan < MaxSpans
            /\ nextTrace + TracesNeeded(TakeParent(rest[j].trace_ctx, junk), sps, sc)
                    <= MaxTraces

\* the bounds of the model leave room for a take by t that is handed r
TakeWithinBounds(t, r, junk) ==
    ProceedWithinBounds(IF r.n > 0 THEN SubSeq(r.batch, 1, r.n) ELSE <<>>,
                        spans, scopes[t], junk)

\* the bounds of the model leave room for the callback on t to return
ReturnWithinBounds(t, junk) ==
    ProceedWithinBounds(Top(t).rest, DropSpan(spans, Top(t).span),
                        SubSeq(scopes[t], 1, Len(scopes[t]) - 1), junk)

\* reader.take(span_name, callback) on the reader of topic tp, called by thread
\* t from its poll loop or from inside the handler of a take on another
\* reader (a reader has one samples_ array, which holds the message a running
\* handler was given); dds_take returns r.n and fills in r.batch
Take(t, tp, r, junk) ==
    /\ t \in live
    /\ \A k \in 1..Len(stack[t]) : stack[t][k].reader # tp
    /\ topics' = [topics EXCEPT ![tp] = SubSeq(@, DataCount(r.batch) + 1, Len(@))]
    /\ Proceed(t, stack[t],
               Frame(tp, r.batch, r.n, g_active_trace_id[t], g_active_span_id[t]),
               NoSpan, spans, g_active_trace_id[t], g_active_span_id[t], scopes[t], junk)
    /\ exported' = <<>>
    /\ lastWrite' = NoCallLeft(t)
    /\ UNCHANGED <<live, codec, fusion, env, init>>

\* the calls a callback makes on the span it was given, in order: the
\* span.SetStatus(kError, ...) of the recon-unit handler, and span.End()
SpanCalls == {<<>>, <<"SetStatus">>, <<"End">>, <<"SetStatus", "End">>, <<"End", "SetStatus">>}

\* one call of the callback on its span; by_handler keeps the status the
\* callback gave the span, handler_end the status the span had when the
\* callback ended it ("none" while it has not)
SpanCall(sp, call) ==
    IF call = "End"
    THEN [End(sp) EXCEPT !.handler_end = IF sp.ended THEN @ ELSE sp.status]
    ELSE [SetStatus(sp, "error", "Target not found") EXCEPT
            !.by_handler = IF sp.ended THEN @ ELSE "error"]

\* the span after the calls of the callback
RECURSIVE AfterCalls(_, _)
AfterCalls(sp, calls) ==
    IF calls = <<>> THEN sp ELSE AfterCalls(SpanCall(sp, Head(calls)), Tail(calls))

\* what the calls of the callback hand to the exporter
RECURSIVE CallExports(_, _)
CallExports(sp, calls) ==
    IF calls = <<>> THEN <<>>
    ELSE Exports(sp, SpanCall(sp, Head(calls))) \o
         CallExports(SpanCall(sp, Head(calls)), Tail(calls))

\* the callback running on thread t, having made the calls on its span,
\* returns: take clears the active context, sets the status, ends the span,
\* counts the message, leaves the scope and goes on with the batch
HandlerReturn(t, calls, junk) ==
    /\ t \in live
    /\ InHandler(t)
    /\ LET fr == Top(t)
           sc == scopes[t]
           sp == AfterCalls(spans[fr.span], calls)
           done == ReleaseSpan(AfterCallback(sp))
           out == CallExports(spans[fr.span], calls) \o Exports(sp, done)
       IN  /\ Proceed(t, SubSeq(stack[t], 1, Len(stack[t]) - 1),
                      [fr EXCEPT !.processed = @ + 1, !.finished = @ + Len(out)],
                      done, DropSpan(spans, fr.span),
                      AfterCallbackActive(g_active_trace_id[t]),
                      AfterCallbackActive(g_active_span_id[t]),
                      SubSeq(sc, 1, Len(sc) - 1), junk)
           /\ exported' = out
    /\ lastWrite' = NoCallLeft(t)
    /\ UNCHANGED <<live, topics, codec, fusion, env, init>>

\* the callback running on thread t, having made the calls on its span,
\* raises: take has no handler for it, the exception leaves take; unwinding
\* destroys the scope and releases the span
HandlerThrow(t, calls) ==
    /\ t \in live
    /\ InHandler(t)
    /\ LET fr == Top(t)
           sc == scopes[t]
           sp == AfterCalls(spans[fr.span], calls)
           done == ReleaseSpan(sp)
           out == CallExports(spans[fr.span], calls) \o Exports(sp, done)
       IN  /\ stack' = [stack EXCEPT ![t] = SubSeq(@, 1, Len(@) - 1)]
           /\ scopes' = [scopes EXCEPT ![t] = SubSeq(sc, 1, Len(sc) - 1)]
           /\ spans' = DropSpan(spans, fr.span)
           /\ exported' = out
           /\ lastTake' = [NoTakeLeft(t) EXCEPT ![t] =
                    TakeLeft([fr EXCEPT !.finished = @ + Len(out)],
                             "raise", done, g_active_trace_id[t], g_active_span_id[t])]
    /\ lastWrite' = NoCallLeft(t)
    /\ UNCHANGED <<live, nextTrace, nextSpan, g_active_trace_id, g_active_span_id,
                   trace_id_buf, span_id_buf, topics, codec, fusion, env, init>>

----------------------------------------------------------------------------
(* The track-fusion service: main of services/track-fusion/main.cpp *)

\* main before its loop: nothing collected, the first tactical track number,
\* the window started at time(NULL); pc is "poll" at the top of the loop and
\* "publish" at the call of writer.write inside a fusion; fuse_span and
\* pub_span are the handles of the spans of the fusion in progress; sources
\* (the trace contexts of the messages collected) and emitted (what the last
\* writer.write returned) record history
NoFusion ==
    [pc |-> "poll", collected_tracks |-> <<>>, tactical_track_num |-> 1,
     last_fusion_time |-> 0, now |-> 0, fuse_span |-> 0, pub_span |-> 0,
     sources |-> <<>>, emitted |-> "none"]

\* the clock at start, no source track published yet, and the backend the
\* exporter posts to reachable
NoEnv == [clock |-> 0, tracks |-> 0, reachable |-> TRUE]

\* the backend becomes unreachable, or reachable again
BackendChange ==
    /\ env' = [env EXCEPT !.reachable = ~@]
    /\ UNCHANGED <<progVars, codec, fusion, init>>

\* the spans of the last step that arrived at the backend: the exporter drops
\* what it cannot post
Delivered == IF env.reachable THEN exported ELSE <<>>

\* the span ids and trace ids of the sensor services, which are other
\* processes with tracers of their own, start here
RemoteBase == 160

\* the k-th source track a sensor service publishes: writer.write(msg,
\* "radar-detect") from its loop, a root publish
SensorTrack(k) ==
    LET sp == StartSpan("pub", "sensor", InvalidContext, <<>>, <<>>,
                        RemoteBase + k - 1, RemoteBase + k - 1)
    IN  Sample(TRUE, inject(EmptyCtx, sp), sp.trace_id)

\* a sensor service publishes its next source track
SensorPublish ==
    /\ env.tracks < MaxTracks
    /\ Len(topics["SourceTrackTopic"]) < MaxQueue
    /\ env' = [env EXCEPT !.tracks = @ + 1]
    /\ topics' = [topics EXCEPT !["SourceTrackTopic"] = Append(@, SensorTrack(env.tracks + 1))]
    /\ UNCHANGED <<live, nextTrace, nextSpan, spans, exported, g_active_trace_id,
                   g_active_span_id, trace_id_buf, span_id_buf, scopes, stack,
                   lastWrite, lastTake, codec, fusion, init>>

\* a second passes
Tick ==
    /\ env.clock < MaxClock
    /\ env' = [env EXCEPT !.clock = @ + 1]
    /\ UNCHANGED <<progVars, codec, fusion, init>>

\* the bug of a link that keeps the trace id only
TrackLink_TraceOnly(msg) == [trace_id |-> msg.trace_ctx.trace_id, span_id |-> <<>>]

\* ct.link of a collected message: the two strings of its trace context
TrackLink(msg) ==
    [trace_id |-> msg.trace_ctx.trace_id, span_id |-> msg.trace_ctx.span_id]

\* the entries with data among the n entries dds_take filled
Received(batch, n) ==
    IF n > 0 THEN SelectSeq(SubSeq(batch, 1, n), LAMBDA e : e.valid) ELSE <<>>

\* the bug of a collect loop that keeps the tracks of the last poll only
Collect_LastPoll(tracks, batch, n) ==
    [k \in 1..Len(Received(batch, n)) |-> TrackLink(Received(batch, n)[k])]

\* collected_tracks after the collect loop over what dds_take gave
Collect(tracks, batch, n) ==
    tracks \o [k \in 1..Len(Received(batch, n)) |-> TrackLink(Received(batch, n)[k])]

\* traced::create_linked_span(name, links): the span of a new root trace,
\* whatever span is current, with one link per input
create_linked_span(t, links, traces, ids) ==
    LET sp == StartSpan("internal", t, InvalidContext, <<>>, <<>>, traces, ids)
    IN  [f \in DOMAIN sp \cup {"links"} |-> IF f = "links" THEN links ELSE sp[f]]

\* traced::create_child_span(name): a span whose parent is the current span
create_child_span(t, sps, sc, traces, ids) ==
    StartSpan("internal", t, InvalidContext, sps, sc, traces, ids)

\* the bug of a fusion that is started by the clock alone
FusionDue_WindowOnly(now, last, tracks) == now - last >= FUSION_WINDOW_SEC

\* the window has elapsed and something was collected
FusionDue(now, last, tracks) == now - last >= FUSION_WINDOW_SEC /\ tracks # <<>>

\* one pass of the loop of main up to the usleep, or up to writer.write when
\* a fusion is due: the raw dds_take (it returns n and fills in batch), the
\* collect loop, time(NULL), and in a fusion create_linked_span, one ended
\* receive span per collected track, the ended correlate span, and the
\* publish-tactical span
FusionPoll(t, batch, n) ==
    LET tracks == Collect(fusion.collected_tracks, batch, n)
        sources == fusion.sources \o
                   [k \in 1..Len(Received(batch, n)) |-> Received(batch, n)[k].trace_ctx]
        now == env.clock
        k == Len(tracks)
        hF == nextSpan + 1
        hP == nextSpan + k + 3
        fuse == create_linked_span(t, tracks, nextTrace, nextSpan)
        sps == PutSpan(spans, hF, fuse)
        sc == Append(scopes[t], hF)
        recv == [i \in 1..k |-> End(create_child_span(t, sps, sc, nextTrace + 1, nextSpan + i))]
        corr == End(create_child_span(t, sps, sc, nextTrace + 1, nextSpan + k + 1))
        pub == create_child_span(t, sps, sc, nextTrace + 1, nextSpan + k + 2)
    IN  /\ t \in live
        /\ fusion.pc = "poll"
        /\ topics' = [topics EXCEPT !["SourceTrackTopic"] =
                            SubSeq(@, DataCount(batch) + 1, Len(@))]
        /\ IF FusionDue(now, fusion.last_fusion_time, tracks)
           THEN /\ fusion' = [fusion EXCEPT !.pc = "publish", !.collected_tracks = tracks,
                                            !.now = now, !.fuse_span = hF, !.pub_span = hP,
                                            !.sources = sources]
                /\ spans' = PutSpan(sps, hP, pub)
                /\ scopes' = [scopes EXCEPT ![t] = Append(sc, hP)]
                /\ nextSpan' = nextSpan + k + 3
                /\ nextTrace' = nextTrace + 1
                /\ exported' = recv \o <<corr>>
           ELSE /\ fusion' = [fusion EXCEPT !.collected_tracks = tracks, !.now = now,
                                            !.sources = sources]
                /\ exported' = <<>>
                /\ UNCHANGED <<spans, scopes, nextSpan, nextTrace>>
        /\ lastWrite' = NoCallLeft(t)
        /\ UNCHANGED <<live, g_active_trace_id, g_active_span_id, trace_id_buf, span_id_buf,
                       stack, lastTake, codec, env, init>>

\* writer.write(tac, "emit-tactical-track") inside the fusion
FusionPublish(t, ret, junk) ==
    /\ fusion.pc = "publish"
    /\ ~lastWrite[t].called
    /\ Write(t, "TacticalTrackTopic", ret, junk)

\* the bug of a fusion that keeps its tracks for another try when
\* writer.write returned false
AfterFusion_RetryOnFailure(tracks, written) == IF written THEN <<>> ELSE tracks

\* collected_tracks.clear() at the end of the fusion, whatever writer.write
\* returned
AfterFusion(tracks, written) == <<>>

\* the rest of the fusion after writer.write returned: pub_span->End(),
\* fuse_span->End(), the scopes left, collected_tracks.clear(),
\* tactical_track_num++, last_fusion_time = now
FusionFinish(t) ==
    LET pub == spans[fusion.pub_span]
        fuse == spans[fusion.fuse_span]
    IN  /\ t \in live
        /\ fusion.pc = "publish"
        /\ lastWrite[t].called
        /\ fusion' = [fusion EXCEPT !.pc = "poll",
                                    !.collected_tracks = AfterFusion(@, lastWrite[t].result),
                                    !.tactical_track_num = @ + 1,
                                    !.last_fusion_time = fusion.now,
                                    !.fuse_span = 0, !.pub_span = 0,
                                    !.sources = <<>>, !.emitted = lastWrite[t].result]
        /\ exported' = Exports(pub, End(pub)) \o Exports(fuse, End(fuse))
        /\ spans' = DropSpan(DropSpan(spans, fusion.pub_span), fusion.fuse_span)
        /\ scopes' = [scopes EXCEPT ![t] = SubSeq(@, 1, Len(@) - 2)]
        /\ lastWrite' = NoCallLeft(t)
        /\ UNCHANGED <<live, nextTrace, nextSpan, g_active_trace_id, g_active_span_id,
                       trace_id_buf, span_id_buf, stack, topics, lastTake, codec, env, init>>

\* the track-fusion service, the sensor services and the clock
NextFusion ==
    \/ SensorPublish
    \/ Tick
    \/ \E r \in dds_take_results(topics["SourceTrackTopic"]) : FusionPoll("main", r.batch, r.n)
    \/ \E ret \in dds_write_results : FusionPublish("main", ret, ZeroBytes(16))
    \/ FusionFinish("main")

----------------------------------------------------------------------------
(* The system: one thread polls, publishes and takes *)

\* the identifier strings carried by a sequence of samples
WireIds(samples) ==
    {samples[k].trace_ctx.trace_id : k \in 1..Len(samples)} \cup
    {samples[k].trace_ctx.span_id : k \in 1..Len(samples)}

Init ==
    /\ live = {"main"}
    /\ nextTrace = 0
    /\ nextSpan = 0
    /\ spans = <<>>
    /\ exported = <<>>
    /\ g_active_trace_id = [t \in Threads |-> <<>>]
    /\ g_active_span_id = [t \in Threads |-> <<>>]
    /\ trace_id_buf = [t \in Threads |-> <<>>]
    /\ span_id_buf = [t \in Threads |-> <<>>]
    /\ scopes = [t \in Threads |-> <<>>]
    /\ stack = [t \in Threads |-> <<>>]
    /\ topics = [tp \in Topics \cup FusionTopics |-> <<>>]
    /\ lastWrite = [t \in Threads |-> NoWrite]
    /\ lastTake = [t \in Threads |-> NoTake]
    /\ codec = NoCodec
    /\ fusion = NoFusion
    /\ env = NoEnv
    /\ init = Initialized

Next ==
    \/ \E t \in live, tp \in Topics, ret \in dds_write_results :
            \E junk \in Uninit({g_active_trace_id[t], g_active_span_id[t]}) :
                WriteWithinBounds(t, tp, junk) /\ Write(t, tp, ret, junk)
    \/ \E t \in live, tp \in Topics :
            \E r \in dds_take_results(topics[tp]), junk \in Uninit(WireIds(topics[tp])) :
                TakeWithinBounds(t, r, junk) /\ Take(t, tp, r, junk)
    \/ \E t \in live, calls \in SpanCalls :
            InHandler(t) /\ \E junk \in Uninit(WireIds(Top(t).rest)) :
                ReturnWithinBounds(t, junk) /\ HandlerReturn(t, calls, junk)
    \/ \E t \in live, calls \in SpanCalls : HandlerThrow(t, calls)

Spec == Init /\ [][Next]_vars

\* a trace id and a span id as another process encoded them
ForeignTrace == ToLowerBase16([i \in 1..(TRACE_HEX_LEN \div 2) |-> IF i = 1 THEN 171 ELSE i])

ForeignSpan == ToLowerBase16([i \in 1..(SPAN_HEX_LEN \div 2) |-> IF i = 1 THEN 205 ELSE i])

\* the forms of one identifier string in a message that was not written by
\* Writer::write, or was damaged: well-formed, empty, all zero, cut short, and
\* with a character that is no hexadecimal digit second or first in a pair
ForeignStrings(hex) ==
    {hex, <<>>, [i \in 1..Len(hex) |-> "0"], SubSeq(hex, 1, Len(hex) - 1),
     [hex EXCEPT ![Len(hex)] = "g"], [hex EXCEPT ![1] = "g"]}

\* the trace contexts of such messages: at least one of the two strings is
\* well-formed or empty
ForeignContexts ==
    {TraceCtx(t, s, <<>>, 1) : t \in ForeignStrings(ForeignTrace), s \in {ForeignSpan, <<>>}}
    \cup {TraceCtx(t, s, <<>>, 1) : t \in {ForeignTrace, <<>>}, s \in ForeignStrings(ForeignSpan)}

\* a process that has started all but three of its spans and all but one of
\* its traces polls a topic in which one message of another publisher waits
InitForeign ==
    /\ live = {"main"}
    /\ nextTrace = MaxTraces - 1
    /\ nextSpan = MaxSpans - 3
    /\ spans = <<>>
    /\ exported = <<>>
    /\ g_active_trace_id = [t \in Threads |-> <<>>]
    /\ g_active_span_id = [t \in Threads |-> <<>>]
    /\ trace_id_buf = [t \in Threads |-> <<>>]
    /\ span_id_buf = [t \in Threads |-> <<>>]
    /\ scopes = [t \in Threads |-> <<>>]
    /\ stack = [t \in Threads |-> <<>>]
    /\ \E tc \in ForeignContexts :
            topics = [tp \in Topics \cup FusionTopics |-> IF tp = "MissionOrderTopic"
                                        THEN <<Sample(TRUE, tc, NoTraceId)>> ELSE <<>>]
    /\ lastWrite = [t \in Threads |-> NoWrite]
    /\ lastTake = [t \in Threads |-> NoTake]
    /\ codec = NoCodec
    /\ fusion = NoFusion
    /\ env = NoEnv
    /\ init = Initialized

SpecForeign == InitForeign /\ [][Next]_vars

SpecFusion == Init /\ [][NextFusion]_vars

\* a process whose threads have constructed no Writer and no Reader yet
InitFirstUse ==
    /\ live = Threads
    /\ nextTrace = 0
    /\ nextSpan = 0
    /\ spans = <<>>
    /\ exported = <<>>
    /\ g_active_trace_id = [t \in Threads |-> <<>>]
    /\ g_active_span_id = [t \in Threads |-> <<>>]
    /\ trace_id_buf = [t \in Threads |-> <<>>]
    /\ span_id_buf = [t \in Threads |-> <<>>]
    /\ scopes = [t \in Threads |-> <<>>]
    /\ stack = [t \in Threads |-> <<>>]
    /\ topics = [tp \in Topics \cup FusionTopics |-> <<>>]
    /\ lastWrite = [t \in Threads |-> NoWrite]
    /\ lastTake = [t \in Threads |-> NoTake]
    /\ codec = NoCodec
    /\ fusion = NoFusion
    /\ env = NoEnv
    /\ init = NoInit

SpecInit == InitFirstUse /\ [][NextInit]_vars

\* two threads of one process that has started all but three of its spans and
\* all but one of its traces, each thread with its own poll loop; in each
\* topic waits one message that another process published
InitThreads ==
    /\ live = Threads
    /\ nextTrace = MaxTraces - 1
    /\ nextSpan = MaxSpans - 3
    /\ spans = <<>>
    /\ exported = <<>>
    /\ g_active_trace_id = [t \in Threads |-> <<>>]
    /\ g_active_span_id = [t \in Threads |-> <<>>]
    /\ trace_id_buf = [t \in Threads |-> <<>>]
    /\ span_id_buf = [t \in Threads |-> <<>>]
    /\ scopes = [t \in Threads |-> <<>>]
    /\ stack = [t \in Threads |-> <<>>]
    /\ topics = [tp \in Topics \cup FusionTopics |->
                    IF tp = "MissionOrderTopic" THEN <<SensorTrack(1)>>
                    ELSE IF tp = "ReconReportTopic" THEN <<SensorTrack(2)>> ELSE <<>>]
    /\ lastWrite = [t \in Threads |-> NoWrite]
    /\ lastTake = [t \in Threads |-> NoTake]
    /\ codec = NoCodec
    /\ fusion = NoFusion
    /\ env = NoEnv
    /\ init = Initialized

SpecThreads == InitThreads /\ [][Next]_vars

\* a process that has started all but three of its spans and all but one of
\* its traces; one message that another process published waits in a topic;
\* the backend is reachable or not
InitBackend ==
    /\ live = {"main"}
    /\ nextTrace = MaxTraces - 1
    /\ nextSpan = MaxSpans - 3
    /\ spans = <<>>
    /\ exported = <<>>
    /\ g_active_trace_id = [t \in Threads |-> <<>>]
    /\ g_active_span_id = [t \in Threads |-> <<>>]
    /\ trace_id_buf = [t \in Threads |-> <<>>]
    /\ span_id_buf = [t \in Threads |-> <<>>]
    /\ scopes = [t \in Threads |-> <<>>]
    /\ stack = [t \in Threads |-> <<>>]
    /\ topics = [tp \in Topics \cup FusionTopics |->
                    IF tp = "MissionOrderTopic" THEN <<SensorTrack(1)>> ELSE <<>>]
    /\ lastWrite = [t \in Threads |-> NoWrite]
    /\ lastTake = [t \in Threads |-> NoTake]
    /\ codec = NoCodec
    /\ fusion = NoFusion
    /\ \E up \in BOOLEAN : env = [NoEnv EXCEPT !.reachable = up]
    /\ init = Initialized

NextBackend == Next \/ BackendChange

SpecBackend == InitBackend /\ [][NextBackend]_vars

\* the trace contexts a message can hold when thread t hands it to write: none,
\* the one of a message another process published, or, in a callback that
\* publishes the message it was given, the one that message arrived with
HeldContexts(t) ==
    {EmptyCtx, SensorTrack(2).trace_ctx} \cup
        (IF InHandler(t) THEN {Top(t).msg.trace_ctx} ELSE {})

InitReuse == InitBackend /\ env = NoEnv

NextReuse ==
    \/ \E t \in live, tp \in Topics, ret \in dds_write_results :
            \E held \in HeldContexts(t),
               junk \in Uninit({g_active_trace_id[t], g_active_span_id[t]}) :
                WriteWithinBounds(t, tp, junk) /\ WriteMsg(t, tp, held, ret, junk)
    \/ \E t \in live, tp \in Topics :
            \E r \in dds_take_results(topics[tp]), junk \in Uninit(WireIds(topics[tp])) :
                TakeWithinBounds(t, r, junk) /\ Take(t, tp, r, junk)
    \/ \E t \in live, calls \in SpanCalls :
            InHandler(t) /\ \E junk \in Uninit(WireIds(Top(t).rest)) :
                ReturnWithinBounds(t, junk) /\ HandlerReturn(t, calls, junk)
    \/ \E t \in live, calls \in SpanCalls : HandlerThrow(t, calls)

SpecReuse == InitReuse /\ [][NextReuse]_vars

\* a process that has started no span yet polls a topic in which one message
\* more than a take can hold waits, each published by another process as the
\* root of its own trace
InitBatch ==
    /\ live = {"main"}
    /\ nextTrace = 0
    /\ nextSpan = 0
    /\ spans = <<>>
    /\ exported = <<>>
    /\ g_active_trace_id = [t \in Threads |-> <<>>]
    /\ g_active_span_id = [t \in Threads |-> <<>>]
    /\ trace_id_buf = [t \in Threads |-> <<>>]
    /\ span_id_buf = [t \in Threads |-> <<>>]
    /\ scopes = [t \in Threads |-> <<>>]
    /\ stack = [t \in Threads |-> <<>>]
    /\ topics = [tp \in Topics \cup FusionTopics |->
                    IF tp = "MissionOrderTopic"
                    THEN [k \in 1..(MAX_SAMPLES + 1) |-> SensorTrack(k)] ELSE <<>>]
    /\ lastWrite = [t \in Threads |-> NoWrite]
    /\ lastTake = [t \in Threads |-> NoTake]
    /\ codec = NoCodec
    /\ fusion = NoFusion
    /\ env = NoEnv
    /\ init = Initialized

\* the callback running on some thread returns or raises
HandlerLeaves ==
    \/ \E t \in live, calls \in SpanCalls : HandlerThrow(t, calls)
    \/ \E t \in live, calls \in SpanCalls :
            InHandler(t) /\ \E junk \in Uninit(WireIds(Top(t).rest)) :
                HandlerReturn(t, calls, junk)

\* the poll loop of a subscriber whose callbacks publish nothing
NextBatch ==
    \/ \E t \in live, tp \in Topics :
            \E r \in dds_take_results(topics[tp]), junk \in Uninit(WireIds(topics[tp])) :
                Take(t, tp, r, junk)
    \/ HandlerLeaves

\* every callback that was called comes to its end
SpecBatch == InitBatch /\ [][NextBatch]_vars /\ WF_vars(HandlerLeaves)

\* a process in some environment that has constructed no Writer and no Reader
\* yet, with room for one span and one trace; one message that another
\* process published waits in a topic
InitShutdown ==
    /\ live = {"main"}
    /\ nextTrace = MaxTraces - 1
    /\ nextSpan = MaxSpans - 1
    /\ spans = <<>>
    /\ exported = <<>>
    /\ g_active_trace_id = [t \in Threads |-> <<>>]
    /\ g_active_span_id = [t \in Threads |-> <<>>]
    /\ trace_id_buf = [t \in Threads |-> <<>>]
    /\ span_id_buf = [t \in Threads |-> <<>>]
    /\ scopes = [t \in Threads |-> <<>>]
    /\ stack = [t \in Threads |-> <<>>]
    /\ topics = [tp \in Topics \cup FusionTopics |->
                    IF tp = "MissionOrderTopic" THEN <<SensorTrack(1)>> ELSE <<>>]
    /\ lastWrite = [t \in Threads |-> NoWrite]
    /\ lastTake = [t \in Threads |-> NoTake]
    /\ codec = NoCodec
    /\ fusion = NoFusion
    /\ env = NoEnv
    /\ \E e \in Environs : init = [NoInit EXCEPT !.environ = e]

\* one thread that constructs its objects, writes and takes with them, and
\* calls do_init and do_shutdown itself at any point
NextShutdown ==
    \/ \E t \in Threads : Construct(t)
    \/ \E t \in Threads : GetAutoInit(t)
    \/ \E t \in Threads : DoInitTest(t)
    \/ \E t \in Threads : DoInitBody(t)
    \/ \E t \in Threads : DoInitFlag(t)
    \/ \E t \in Threads : Constructed(t)
    \/ \E t \in Threads : EnsureInitReturn(t)
    \/ \E t \in Threads : CallDoInit(t)
    \/ \E t \in Threads : CallDoShutdown(t)
    \/ \E t \in Threads, e \in Environs : Setenv(t, e)
    \/ \E t \in live, tp \in Topics, ret \in dds_write_results :
            \E junk \in Uninit({g_active_trace_id[t], g_active_span_id[t]}) :
                HasObjects(t) /\ WriteWithinBounds(t, tp, junk) /\ Write(t, tp, ret, junk)
    \/ \E t \in live, tp \in Topics :
            \E r \in dds_take_results(topics[tp]), junk \in Uninit(WireIds(topics[tp])) :
                HasObjects(t) /\ TakeWithinBounds(t, r, junk) /\ Take(t, tp, r, junk)
    \/ \E t \in live, calls \in SpanCalls :
            HasObjects(t) /\ InHandler(t) /\ \E junk \in Uninit(WireIds(Top(t).rest)) :
                ReturnWithinBounds(t, junk) /\ HandlerReturn(t, calls, junk)
    \/ \E t \in live, calls \in SpanCalls : HasObjects(t) /\ HandlerThrow(t, calls)

SpecShutdown == InitShutdown /\ [][NextShutdown]_vars

\* a Writer or a Reader exists that thread t can use: the constructor of one
\* has returned on some thread, and t is in no constructor
ObjectsExist(t) ==
    /\ init.pc[t] = "out"
    /\ \E u \in Threads : init.uses[u] > (IF init.pc[u] = "out" THEN 0 ELSE 1)

\* a process whose threads have constructed no Writer and no Reader yet, with
\* room for one span and one trace; one message that another process
\* published waits in a topic
InitUse ==
    /\ live = Threads
    /\ nextTrace = MaxTraces - 1
    /\ nextSpan = MaxSpans - 1
    /\ spans = <<>>
    /\ exported = <<>>
    /\ g_active_trace_id = [t \in Threads |-> <<>>]
    /\ g_active_span_id = [t \in Threads |-> <<>>]
    /\ trace_id_buf = [t \in Threads |-> <<>>]
    /\ span_id_buf = [t \in Threads |-> <<>>]
    /\ scopes = [t \in Threads |-> <<>>]
    /\ stack = [t \in Threads |-> <<>>]
    /\ topics = [tp \in Topics \cup FusionTopics |->
                    IF tp = "MissionOrderTopic" THEN <<SensorTrack(1)>> ELSE <<>>]
    /\ lastWrite = [t \in Threads |-> NoWrite]
    /\ lastTake = [t \in Threads |-> NoTake]
    /\ codec = NoCodec
    /\ fusion = NoFusion
    /\ env = NoEnv
    /\ init = NoInit

\* both threads construct Writer and Reader objects and do_shutdown is
\* called; the worker uses the objects that exist, on one topic and with a
\* callback that leaves its span alone
NextUse ==
    \/ NextInit
    \/ \E t \in live : CallDoShutdown(t)
    \/ \E ret \in dds_write_results :
            \E junk \in Uninit({g_active_trace_id["worker"], g_active_span_id["worker"]}) :
                /\ ObjectsExist("worker")
                /\ WriteWithinBounds("worker", "MissionOrderTopic", junk)
                /\ Write("worker", "MissionOrderTopic", ret, junk)
    \/ \E r \in dds_take_results(topics["MissionOrderTopic"]),
          junk \in Uninit(WireIds(topics["MissionOrderTopic"])) :
            /\ ObjectsExist("worker")
            /\ TakeWithinBounds("worker", r, junk)
            /\ Take("worker", "MissionOrderTopic", r, junk)
    \/ /\ ObjectsExist("worker")
       /\ InHandler("worker")
       /\ \E junk \in Uninit(WireIds(Top("worker").rest)) :
            ReturnWithinBounds("worker", junk) /\ HandlerReturn("worker", <<>>, junk)
    \/ ObjectsExist("worker") /\ HandlerThrow("worker", <<>>)

SpecUse == InitUse /\ [][NextUse]_vars

\* The hand-wired services: main of the legacy recon-unit and of the legacy
\* logistics-depot, which call dds_take and dds_write themselves. Each is a
\* process of one thread; thread "main" stands for the recon unit and thread
\* "worker" for the depot.


\* the topic a hand-wired service reads and the topic it writes
LegacyIn(t) == IF t = "main" THEN "MissionOrderTopic" ELSE "ReconReportTopic"

LegacyOut(t) == IF t = "main" THEN "ReconReportTopic" ELSE "SupplyUpdateTopic"



\* the top of the while loop: dds_take hands over a batch
LegacyPoll(t, r) ==
    /\ t \in live
    /\ stack[t] = <<>>
    /\ topics' = [topics EXCEPT ![LegacyIn(t)] = SubSeq(@, DataCount(r.batch) + 1, Len(@))]
    /\ stack' = [stack EXCEPT ![t] =
                    IF r.n > 0 /\ NextValid(SubSeq(r.batch, 1, r.n)) # 0
                    THEN <<Frame(LegacyIn(t), r.batch, r.n, <<>>, <<>>)>>
                    ELSE <<>>]
    /\ exported' = <<>>
    /\ lastWrite' = NoCallLeft(t)
    /\ lastTake' = NoTakeLeft(t)
    /\ UNCHANGED <<live, nextTrace, nextSpan, spans, g_active_trace_id, g_active_span_id,
                   trace_id_buf, span_id_buf, scopes, codec, fusion, env, init>>

\* one pass of the for loop over an entry that holds data: the span is
\* started from the incoming context, given its status and ended, and the
\* outgoing message is written; the result of dds_write is not looked at
LegacyHandle(t, status, ret, junk) ==
    /\ t \in live
    /\ stack[t] # <<>>
    /\ LET fr == Top(t)
           j == NextValid(fr.rest)
           msg == fr.rest[j]
           parent_ctx == TakeParent(msg.trace_ctx, junk)
           sp == StartSpan("sub", t, parent_ctx, <<>>, <<>>, nextTrace, nextSpan)
           done == End(SetStatus(sp, status, ""))
           \* the two strings read from the incoming message and the span id of
           \* the span of this pass
           tc == TraceCtx(msg.trace_ctx.trace_id, span_id_to_hex(sp.span_id),
                          msg.trace_ctx.span_id, 1)
           left == SubSeq(fr.rest, j + 1, Len(fr.rest))
       IN  /\ nextTrace' = nextTrace + TracesNeeded(parent_ctx, <<>>, <<>>)
           /\ nextSpan' = nextSpan + 1
           /\ exported' = Exports(sp, done)
           /\ topics' = IF ret >= 0
                        THEN [topics EXCEPT ![LegacyOut(t)] =
                                    Append(@, Sample(TRUE, tc, msg.chain))]
                        ELSE topics
           /\ stack' = [stack EXCEPT ![t] =
                            IF NextValid(left) # 0
                            THEN <<[fr EXCEPT !.msg = msg, !.rest = left,
                                              !.handled = @ + 1, !.processed = @ + 1]>>
                            ELSE <<>>]
           /\ lastWrite' = [NoCallLeft(t) EXCEPT ![t] =
                    [NoWrite EXCEPT !.called = TRUE, !.span = done, !.ret = ret,
                                    !.traces_before = nextTrace,
                                    !.sent = ret >= 0, !.held = msg.trace_ctx,
                                    !.trace_ctx = tc, !.chain = msg.chain]]
           /\ lastTake' = NoTakeLeft(t)
    /\ UNCHANGED <<live, spans, g_active_trace_id, g_active_span_id, trace_id_buf,
                   span_id_buf, scopes, codec, fusion, env, init>>

\* the bounds of the model leave room for the span of the next entry
LegacyWithinBounds(t, junk) ==
    /\ stack[t] # <<>>
    /\ nextSpan < MaxSpans
    /\ nextTrace + TracesNeeded(TakeParent(Top(t).rest[NextValid(Top(t).rest)].trace_ctx, junk),
                                <<>>, <<>>) <= MaxTraces

\* the two services are up; one mission order of the command centre and one
\* message of another publisher wait for the recon unit
InitLegacy ==
    /\ live = Threads
    /\ nextTrace = 0
    /\ nextSpan = 0
    /\ spans = <<>>
    /\ exported = <<>>
    /\ g_active_trace_id = [t \in Threads |-> <<>>]
    /\ g_active_span_id = [t \in Threads |-> <<>>]
    /\ trace_id_buf = [t \in Threads |-> <<>>]
    /\ span_id_buf = [t \in Threads |-> <<>>]
    /\ scopes = [t \in Threads |-> <<>>]
    /\ stack = [t \in Threads |-> <<>>]
    /\ \E tc \in ForeignContexts :
            topics = [tp \in Topics \cup {"SupplyUpdateTopic"} \cup FusionTopics |->
                        IF tp = "MissionOrderTopic"
                        THEN <<SensorTrack(1), Sample(TRUE, tc, NoTraceId)>>
                        ELSE <<>>]
    /\ lastWrite = [t \in Threads |-> NoWrite]
    /\ lastTake = [t \in Threads |-> NoTake]
    /\ codec = NoCodec
    /\ fusion = NoFusion
    /\ env = NoEnv
    /\ init = Initialized

\* the loops of the two services; the recon unit gives its span kOk or
\* kError by target_confirmed, the depot always kOk
NextLegacy ==
    \/ \E t \in live : \E r \in dds_take_results(topics[LegacyIn(t)]) : LegacyPoll(t, r)
    \/ \E t \in live, ret \in dds_write_results :
            \E status \in (IF t = "main" THEN {"ok", "error"} ELSE {"ok"}), junk \in StackJunk :
                LegacyWithinBounds(t, junk) /\ LegacyHandle(t, status, ret, junk)

SpecLegacy == InitLegacy /\ [][NextLegacy]_vars

\* a service thread with one batch of two source tracks of different traces
\* waiting on one topic and a third track on the other, and room for four
\* spans: a callback can write twice and run another take in between
InitHandler ==
    /\ live = {"main"}
    /\ nextTrace = MaxTraces - 1
    /\ nextSpan = MaxSpans - 4
    /\ spans = <<>>
    /\ exported = <<>>
    /\ g_active_trace_id = [t \in Threads |-> <<>>]
    /\ g_active_span_id = [t \in Threads |-> <<>>]
    /\ trace_id_buf = [t \in Threads |-> <<>>]
    /\ span_id_buf = [t \in Threads |-> <<>>]
    /\ scopes = [t \in Threads |-> <<>>]
    /\ stack = [t \in Threads |-> <<>>]
    /\ topics = [tp \in Topics \cup FusionTopics |->
                    IF tp = "MissionOrderTopic" THEN <<SensorTrack(1), SensorTrack(2)>>
                    ELSE IF tp = "ReconReportTopic" THEN <<SensorTrack(3)>> ELSE <<>>]
    /\ lastWrite = [t \in Threads |-> NoWrite]
    /\ lastTake = [t \in Threads |-> NoTake]
    /\ codec = NoCodec
    /\ fusion = NoFusion
    /\ env = NoEnv
    /\ init = Initialized

\* the service writes to the tactical-track topic and takes from the two
\* message topics; its callbacks leave their spans alone
NextHandler ==
    \/ \E t \in live, ret \in dds_write_results :
            \E junk \in Uninit({g_active_trace_id[t], g_active_span_id[t]}) :
                WriteWithinBounds(t, "TacticalTrackTopic", junk)
                    /\ Write(t, "TacticalTrackTopic", ret, junk)
    \/ \E t \in live, tp \in Topics :
            \E r \in dds_take_results(topics[tp]), junk \in Uninit(WireIds(topics[tp])) :
                TakeWithinBounds(t, r, junk) /\ Take(t, tp, r, junk)
    \/ \E t \in live :
            InHandler(t) /\ \E junk \in Uninit(WireIds(Top(t).rest)) :
                ReturnWithinBounds(t, junk) /\ HandlerReturn(t, <<>>, junk)
    \/ \E t \in live : HandlerThrow(t, <<>>)

SpecHandler == InitHandler /\ [][NextHandler]_vars

\* one call of the codec functions on their own, on any of the sample arguments
NextCodec ==
    \/ \E len \in {TRACE_HEX_LEN, SPAN_HEX_LEN} :
            \E hex \in CodecStrings(len), junk \in StackJunk : Decode(len, hex, junk)
    \/ \E len \in {TRACE_HEX_LEN, SPAN_HEX_LEN} :
            \E id \in SampleIds(len \div 2), junk \in StackJunk : EncodeDecode(len, id, junk)

SpecCodec == Init /\ [][NextCodec]_vars

----------------------------------------------------------------------------
(* Properties *)

Wrote(t) == lastWrite[t].called

Continuation(t) == lastWrite[t].active_trace # <<>> /\ lastWrite[t].active_span # <<>>

TakeWasLeft(t) == lastTake[t].exit # "none"

\* the trace ids the id generator handed out in its first k draws
TraceIdsSeen(k) == {IdBytes(i, TRACE_HEX_LEN \div 2) : i \in 1..k}

\* C1: along a chain of hops (a root write, then each next message written
\* inside the take handler that received the previous one) every message sent
\* carries the trace_id the root publish assigned.
C1_ChainKeepsTraceId ==
    \A t \in Threads :
        Wrote(t) /\ lastWrite[t].sent =>
            lastWrite[t].trace_ctx.trace_id = trace_id_to_hex(lastWrite[t].chain)

\* C2: a write on a thread whose active context is empty starts a span without
\* parent, with a trace_id the process has not seen before.
C2_EmptyContextStartsFreshRoot ==
    \A t \in Threads :
        Wrote(t) /\ ~Continuation(t) =>
            /\ lastWrite[t].span.parent = NoSpanId
            /\ lastWrite[t].span.trace_id \notin TraceIdsSeen(lastWrite[t].traces_before)

\* C3: a write on a thread whose active context holds (T,S) starts a span with
\* trace_id T and parent span S, and the message it sends carries trace_id T.
C3_ContinuationKeepsTraceAndParent ==
    \A t \in Threads :
        Wrote(t) /\ Continuation(t) =>
            /\ trace_id_to_hex(lastWrite[t].span.trace_id) = lastWrite[t].active_trace
            /\ span_id_to_hex(lastWrite[t].span.parent) = lastWrite[t].active_span
            /\ lastWrite[t].trace_ctx.trace_id = lastWrite[t].active_trace

C3_Witness ==
    \E t \in Threads :
        /\ Wrote(t) /\ Continuation(t) /\ lastWrite[t].sent
        /\ InHandler(t)

\* C4: the parent_span_id a continuation write encodes into the outgoing
\* message is S, the span_id of the active context; it is empty only for a
\* root publish.
C4_ParentSpanIdEncoded ==
    \A t \in Threads :
        Wrote(t) =>
            lastWrite[t].trace_ctx.parent_span_id =
                IF Continuation(t) THEN lastWrite[t].active_span ELSE <<>>

\* C5: the active context of the calling thread is empty immediately before
\* and immediately after every take call made from the poll loop, whatever
\* the handler did.
C5_ContextEmptyAroundTake ==
    \A t \in Threads :
        TakeWasLeft(t) /\ ~InHandler(t) =>
            /\ lastTake[t].before_trace = <<>> /\ lastTake[t].before_span = <<>>
            /\ lastTake[t].after_trace = <<>> /\ lastTake[t].after_span = <<>>

\* C6: when take is left, by return or by a raising handler, it has started
\* one span for each valid message it handed to the handler, every one of
\* these spans has been ended, and no span of the call is still referred to.
C6_TakeEndsOneSpanPerValidMessage ==
    \A t \in Threads :
        TakeWasLeft(t) =>
            /\ lastTake[t].started = lastTake[t].handled
            /\ lastTake[t].finished = lastTake[t].handled
            /\ lastTake[t].handled > 0 => lastTake[t].span.ended

C6_Witness ==
    \E t \in Threads :
        /\ lastTake[t].exit = "raise"
        /\ lastTake[t].handled = 2
        /\ lastTake[t].span.by_handler = "error"

\* C7: when the handler raises, the span of the message is ended with status
\* error and the active context is cleared before the error reaches the caller
\* of take.
C7_RaiseEndsSpanWithErrorAndClears ==
    \A t \in Threads :
        lastTake[t].exit = "raise" =>
            /\ lastTake[t].span.ended
            /\ lastTake[t].span.status = "error"
            /\ lastTake[t].after_trace = <<>> /\ lastTake[t].after_span = <<>>

\* C8: a span on which the take handler set an error status is ended with that
\* error status.
C8_HandlerErrorStatusKept ==
    \A k \in 1..Len(exported) :
        exported[k].by_handler = "error" => exported[k].status = "error"

\* C9: write returns success exactly when the transport send succeeded.
C9_WriteResultMirrorsTransport ==
    \A t \in Threads : Wrote(t) => (lastWrite[t].result <=> lastWrite[t].sent)

C9_Witness ==
    \E t \in Threads : Wrote(t) /\ lastWrite[t].ret < 0 /\ ~lastWrite[t].result

\* C10: the span of a write is ended, and handed to the exporter, with status
\* ok when the transport send succeeded and with status error and a
\* description when it failed.
C10_WriteSpanStatusMirrorsTransport ==
    \A t \in Threads :
        Wrote(t) =>
            /\ lastWrite[t].span.ended
            /\ exported = <<lastWrite[t].span>>
            /\ lastWrite[t].sent => lastWrite[t].span.status = "ok"
            /\ ~lastWrite[t].sent =>
                    /\ lastWrite[t].span.status = "error"
                    /\ lastWrite[t].span.description # ""

C10_Witness ==
    \E t \in Threads :
        /\ Wrote(t) /\ ~lastWrite[t].sent /\ Continuation(t)
        /\ lastWrite[t].span.status = "error"

\* C11: every write ends the span it started exactly once before it returns,
\* also when the transport send failed: the span is handed to the exporter
\* once, ended, and no span of a write is still open afterwards.
C11_WriteEndsItsSpanOnce ==
    \A t \in Threads :
        Wrote(t) =>
            /\ Len(exported) = 1
            /\ exported[1].ended
            /\ exported[1].kind = "pub"
            /\ exported[1].span_id = lastWrite[t].span.span_id
            /\ \A h \in DOMAIN spans : spans[h].kind # "pub"

C11_Witness ==
    \E t \in Threads :
        /\ Wrote(t) /\ lastWrite[t].ret < 0 /\ ~Continuation(t)
        /\ Len(exported) = 1 /\ exported[1].ended

\* C12: a take that returns gives the number of entries with data in the
\* batch; the handler ran once for each of them and for no entry without data,
\* one span was started per entry with data, and a batch without data leaves
\* the active context and the span counter as they were.
C12_TakeCountsValidMessages ==
    \A t \in Threads :
        lastTake[t].exit = "return" =>
            /\ lastTake[t].result = lastTake[t].valid
            /\ lastTake[t].handled = lastTake[t].valid
            /\ lastTake[t].started = lastTake[t].valid
            /\ lastTake[t].valid = 0 =>
                    /\ lastTake[t].after_trace = lastTake[t].before_trace
                    /\ lastTake[t].after_span = lastTake[t].before_span

C12_Witness ==
    \E t \in Threads :
        /\ lastTake[t].exit = "return"
        /\ lastTake[t].skipped > 0
        /\ lastTake[t].valid > 0
        /\ lastTake[t].result = lastTake[t].valid

\* C13: decoding a string that is not exactly 32 (for a span id 16)
\* hexadecimal characters, a string of the right length with another
\* character in it included, gives the absent, all-zero identifier.
C13_DecodeFailsClosed ==
    codec.call = "decode" /\ ~WellFormed(codec.hex, codec.len) =>
        codec.id = ZeroBytes(codec.len \div 2)

\* C14: decoding the encoded form of a valid (not all-zero) trace id or span
\* id gives the identifier back.
C14_DecodeOfEncodeIsIdentity ==
    codec.call = "encode_decode" /\ codec.arg # ZeroBytes(codec.len \div 2) =>
        codec.id = codec.arg

C14_Witness ==
    /\ codec.call = "encode_decode"
    /\ codec.len = SPAN_HEX_LEN
    /\ codec.arg = <<171, 255, 0, 0, 0, 0, 0, 1>>
    /\ codec.id = codec.arg

\* the strings of a trace context do not both hold a well-formed, non-zero
\* identifier
Unusable(tc) ==
    \/ ~WellFormed(tc.trace_id, TRACE_HEX_LEN)
    \/ ~WellFormed(tc.span_id, SPAN_HEX_LEN)
    \/ tc.trace_id = [i \in 1..TRACE_HEX_LEN |-> "0"]
    \/ tc.span_id = [i \in 1..SPAN_HEX_LEN |-> "0"]

\* C15: a valid message whose trace_id or span_id is empty, malformed or all
\* zero is still handled and counted, and its span is the root of a fresh
\* trace: no parent, and a trace id that the id generator drew and that is not
\* what the message carried.
C15_UnusableContextStartsRoot ==
    \A t \in Threads :
        /\ InHandler(t) /\ Unusable(Top(t).msg.trace_ctx) =>
                /\ spans[Top(t).span].parent = NoSpanId
                /\ spans[Top(t).span].trace_id \in TraceIdsSeen(nextTrace)
        /\ lastTake[t].exit = "return" /\ lastTake[t].handled > 0
              /\ Unusable(lastTake[t].ctx) =>
                /\ lastTake[t].result = lastTake[t].valid
                /\ lastTake[t].span.parent = NoSpanId
                /\ lastTake[t].span.trace_id \in TraceIdsSeen(nextTrace)

\* the linked span of the fusion in progress
FuseSpan == spans[fusion.fuse_span]

\* a fusion is between create_linked_span and fuse_span->End()
Fusing == fusion.pc = "publish"

\* C16: the span create_linked_span makes over the contexts of the collected
\* messages is the root of a new trace: it has no parent, its trace id is the
\* trace id of none of the messages, and it records one link per message, in
\* order, each with the trace id and span id of its message.
C16_LinkedSpanIsNewRootWithLinks ==
    Fusing =>
        /\ FuseSpan.parent = NoSpanId
        /\ FuseSpan.trace_id \in TraceIdsSeen(nextTrace)
        /\ Len(FuseSpan.links) = Len(fusion.sources)
        /\ \A k \in 1..Len(fusion.sources) :
              /\ FuseSpan.links[k].trace_id = fusion.sources[k].trace_id
              /\ FuseSpan.links[k].span_id = fusion.sources[k].span_id
              /\ trace_id_to_hex(FuseSpan.trace_id) # fusion.sources[k].trace_id

\* a fusion over three messages of three different traces
C16_Witness ==
    /\ Fusing
    /\ Len(FuseSpan.links) = 3
    /\ Cardinality({FuseSpan.links[k].trace_id : k \in 1..3}) = 3

\* C17: the message writer.write sends inside the scope of the linked span
\* carries the trace id of the linked span: the write drew no new trace id,
\* and the trace id is the trace id of none of the linked messages.
C17_WriteInLinkedScopeCarriesItsTrace ==
    Fusing /\ Wrote("main") /\ lastWrite["main"].sent =>
        /\ lastWrite["main"].trace_ctx.trace_id = trace_id_to_hex(FuseSpan.trace_id)
        /\ lastWrite["main"].span.trace_id = FuseSpan.trace_id
        /\ lastWrite["main"].traces_before = nextTrace
        /\ \A k \in 1..Len(FuseSpan.links) :
              lastWrite["main"].trace_ctx.trace_id # FuseSpan.links[k].trace_id

\* the tactical track of a fusion over two messages was sent
C17_Witness ==
    /\ Fusing /\ Wrote("main") /\ lastWrite["main"].sent
    /\ Len(FuseSpan.links) = 2
    /\ Len(topics["TacticalTrackTopic"]) > 0

\* the spans of the takes in progress on thread u
HandlerSpans(u) == {spans[stack[u][k].span] : k \in 1..Len(stack[u])}

\* C18: the active context is per thread.  A write on a thread whose own
\* context is empty and that has no span of its own current is a root, whatever
\* runs on the other threads; the span of a write is never the child of the
\* span of a take in progress on another thread; and the context of a thread
\* in a handler is never the span of a take in progress on another thread.
C18_ActiveContextIsPerThread ==
    \A t \in Threads : \A u \in Threads \ {t} :
        /\ Wrote(t) /\ ~Continuation(t) /\ scopes[t] = <<>> =>
                lastWrite[t].span.parent = NoSpanId
        /\ Wrote(t) => \A sp \in HandlerSpans(u) :
                /\ lastWrite[t].span.parent # sp.span_id
                /\ lastWrite[t].active_span # span_id_to_hex(sp.span_id)
        /\ \A sp \in HandlerSpans(u) :
                /\ sp.thread = u
                /\ g_active_span_id[t] # span_id_to_hex(sp.span_id)

\* both threads are in the handler of a message of their own, of different
\* traces, and main has just sent a message from its handler: it continues
\* the trace of main's message, as a child of main's span
C18_Witness ==
    /\ InHandler("main") /\ InHandler("worker")
    /\ g_active_span_id["worker"] = span_id_to_hex(spans[Top("worker").span].span_id)
    /\ spans[Top("main").span].trace_id # spans[Top("worker").span].trace_id
    /\ Wrote("main") /\ Continuation("main") /\ lastWrite["main"].sent
    /\ lastWrite["main"].span.parent = spans[Top("main").span].span_id
    /\ lastWrite["main"].span.trace_id = spans[Top("main").span].trace_id

\* C19: from the moment take sets the active context for a message until take
\* clears it after that message's handler, every write of the thread observes
\* that context: a write made inside the handler finds the trace id and span
\* id of the span of the handler's message in the active context, also after
\* the handler ran another take.
C19_HandlerWritesObserveContext ==
    \A t \in Threads :
        InHandler(t) /\ Wrote(t) =>
            /\ lastWrite[t].active_trace = trace_id_to_hex(spans[Top(t).span].trace_id)
            /\ lastWrite[t].active_span = span_id_to_hex(spans[Top(t).span].span_id)


\* C20: when several threads make their first use concurrently, the body of
\* do_init runs exactly once, and no thread gets past ensure_init before the
\* initialization has completed: behind it g_initialized is true and g_tracer
\* is set, and ensure_init returned true.
C20_InitRunsOnceBeforeAnyCallerProceeds ==
    /\ init.runs <= 1
    /\ \A t \in Threads :
          /\ (init.pc[t] = "return" \/ (init.pc[t] = "out" /\ init.uses[t] > 0)) =>
                init.runs = 1 /\ init.g_initialized /\ init.g_tracer = "tracer"
          /\ init.pc[t] = "out" /\ init.uses[t] > 0 => init.result[t]

\* both threads made their first use, the worker while main was constructing
\* the static, and both are through
C20_Witness ==
    /\ init.waited["worker"] /\ ~init.waited["main"]
    /\ init.uses["worker"] = 1 /\ init.uses["main"] = 1
    /\ init.pc["worker"] = "out" /\ init.pc["main"] = "out"
    /\ init.runs = 1


\* C21: do_shutdown is idempotent.  A call made when g_initialized is false,
\* after an earlier do_shutdown or before any initialization, changes no
\* state: not the provider, the tracer, the flag or the service name, and
\* nothing of the tracing layer.
C21_ShutdownIsIdempotent ==
    [][init'.shutdowns = init.shutdowns + 1 /\ ~init.g_initialized =>
            /\ init' = [init EXCEPT !.shutdowns = @ + 1]
            /\ UNCHANGED progVars]_vars

\* do_shutdown was called twice after an initialization, and the second call
\* found the provider already replaced
C21_Witness ==
    /\ init.shutdowns = 2 /\ init.runs = 1 /\ init.inits = 0
    /\ ~init.g_initialized /\ init.provider = "null" /\ init.g_tracer = "tracer"

\* do_shutdown has run and tracing was not initialized again
AfterShutdown == init.shutdowns > 0 /\ ~init.g_initialized /\ init.provider = "null"

\* a span that does nothing: its context is the invalid, all-zero one
IsNoopSpan(sp) == sp.trace_id = NoTraceId /\ sp.span_id = NoSpanId

\* C22 as stated: after shutdown write and take complete, the spans they
\* start are no-op spans, the message is sent when the transport accepts it,
\* and the transport result and the message count are returned.
C22_AfterShutdownSpansAreNoop ==
    \A t \in Threads :
        /\ AfterShutdown /\ Wrote(t) =>
              /\ IsNoopSpan(lastWrite[t].span)
              /\ lastWrite[t].sent = (lastWrite[t].ret >= 0)
              /\ lastWrite[t].result = (lastWrite[t].ret >= 0)
        /\ AfterShutdown /\ lastTake[t].exit = "return" =>
              /\ lastTake[t].handled > 0 => IsNoopSpan(lastTake[t].span)
              /\ lastTake[t].result = lastTake[t].valid

\* C23: when dds_take returns an error code, take gives its caller a failure
\* result, one that no take without a transport failure gives: a negative
\* count, as a take that found no message returns 0 and one that handled
\* messages returns their number.
C23_TakeSurfacesTransportFailure ==
    \A t \in Threads :
        lastTake[t].exit = "return" =>
            (lastTake[t].failed <=> lastTake[t].result < 0)

\* C24: what write returns and what take returns depend on the transport and
\* the messages only: whether the backend is reachable or not, write returns
\* whether dds_write succeeded and take returns the number of entries with
\* data, and take is left by an exception only when the handler raised one.
C24_ResultsIndependentOfExporter ==
    \A t \in Threads :
        /\ Wrote(t) => lastWrite[t].result = (lastWrite[t].ret >= 0)
        /\ lastTake[t].exit = "return" => lastTake[t].result = lastTake[t].valid
        /\ lastTake[t].exit = "raise" => lastTake[t].handled > 0

\* a write returned true although the span it ended could not be delivered
C24_Witness ==
    /\ ~env.reachable
    /\ Wrote("main") /\ lastWrite["main"].result /\ lastWrite["main"].sent
    /\ exported # <<>> /\ Delivered = <<>>


C26_ConfigurationResolvedOnce ==
    [][/\ ~init.g_initialized /\ init'.g_initialized =>
            /\ init'.g_service_name = ServiceName(init.environ)
            /\ init'.endpoint = Endpoint(init.environ)
            /\ init'.g_tracer = "tracer"
       /\ init'.inits = init.inits + 1 /\ init.runs > 0 =>
            /\ init'.g_service_name = init.g_service_name
            /\ init'.g_tracer = init.g_tracer]_vars

\* in this step take called the callback on thread t for a message
HandlerStarted(t) ==
    /\ stack'[t] # <<>>
    /\ \/ Len(stack'[t]) > Len(stack[t])
       \/ /\ Len(stack'[t]) = Len(stack[t])
          /\ stack'[t][Len(stack'[t])].span # stack[t][Len(stack[t])].span

C28_MessageCarriesPublishSpan ==
    [][\A t \in Threads :
          /\ lastWrite'[t].called =>
                /\ lastWrite'[t].span.kind = "pub"
                /\ lastWrite'[t].trace_ctx.trace_id =
                        trace_id_to_hex(lastWrite'[t].span.trace_id)
                /\ lastWrite'[t].trace_ctx.span_id =
                        span_id_to_hex(lastWrite'[t].span.span_id)
                /\ \A tp \in Topics :
                        topics'[tp] # topics[tp] =>
                            topics'[tp][Len(topics'[tp])].trace_ctx = lastWrite'[t].trace_ctx
          /\ HandlerStarted(t) =>
                LET fr == stack'[t][Len(stack'[t])]
                IN  ~Unusable(fr.msg.trace_ctx) =>
                        /\ trace_id_to_hex(spans'[fr.span].trace_id) =
                                fr.msg.trace_ctx.trace_id
                        /\ span_id_to_hex(spans'[fr.span].parent) =
                                fr.msg.trace_ctx.span_id]_vars

\* a write inside a callback was handed the message the callback received,
\* dds_write failed, and the message holds the ids of the write's span
C28_Witness ==
    /\ InHandler("main")
    /\ Wrote("main") /\ ~lastWrite["main"].sent
    /\ lastWrite["main"].held = Top("main").msg.trace_ctx
    /\ lastWrite["main"].held.trace_id # <<>>
    /\ lastWrite["main"].trace_ctx.span_id # lastWrite["main"].held.span_id
    /\ lastWrite["main"].trace_ctx.span_id = span_id_to_hex(lastWrite["main"].span.span_id)

\* the active context of thread t, both strings
ActiveContext(t) == <<g_active_trace_id[t], g_active_span_id[t]>>

\* C29: a write leaves the active context of every thread as it found it, and
\* a step changes the active context of a thread only when take sets it to
\* the ids of the span it started for a callback, or when take clears it
\* after the last callback and returns
C29_OnlyTakeChangesActiveContext ==
    [][\A t \in Threads :
          /\ lastWrite'[t].called =>
                /\ \A u \in Threads : ActiveContext(u)' = ActiveContext(u)
                /\ lastWrite'[t].active_trace = g_active_trace_id'[t]
                /\ lastWrite'[t].active_span = g_active_span_id'[t]
          /\ ActiveContext(t)' # ActiveContext(t) =>
                \/ /\ HandlerStarted(t)
                   /\ ActiveContext(t)' =
                        <<trace_id_to_hex(spans'[stack'[t][Len(stack'[t])].span].trace_id),
                          span_id_to_hex(spans'[stack'[t][Len(stack'[t])].span].span_id)>>
                \/ /\ InHandler(t)
                   /\ lastTake'[t].exit = "return"
                   /\ ActiveContext(t)' = <<<<>>, <<>>>>]_vars

\* a write inside a callback found a context, overwrote the thread's buffers
\* with the ids of its own span, and the active context is still the one found
C29_Witness ==
    /\ InHandler("main")
    /\ Wrote("main") /\ Continuation("main")
    /\ ActiveContext("main") = <<lastWrite["main"].active_trace, lastWrite["main"].active_span>>
    /\ span_id_buf["main"] = lastWrite["main"].trace_ctx.span_id
    /\ span_id_buf["main"] # g_active_span_id["main"]

\* hex is len lowercase hexadecimal digits, not all of them "0"
LowerHexId(hex, len) ==
    /\ Len(hex) = len
    /\ \A i \in 1..len : \E v \in 1..16 : hex[i] = HexDigits[v]
    /\ \E i \in 1..len : hex[i] # "0"

\* C30: the message a write hands to the transport holds a trace_id of 32
\* lowercase hexadecimal digits and a span_id of 16, neither all zero, and
\* trace_flags with bit 0 set, whatever context the write continued
C30_SentContextIsWellFormed ==
    \A t \in Threads :
        Wrote(t) =>
            /\ LowerHexId(lastWrite[t].trace_ctx.trace_id, TRACE_HEX_LEN)
            /\ LowerHexId(lastWrite[t].trace_ctx.span_id, SPAN_HEX_LEN)
            /\ lastWrite[t].trace_ctx.trace_flags % 2 = 1

\* a write in the callback of a message of another publisher continued that
\* publisher's trace, whose id has letters, and the message was sent
C30_Witness ==
    /\ InHandler("main")
    /\ Wrote("main") /\ lastWrite["main"].sent
    /\ lastWrite["main"].trace_ctx.trace_id = ForeignTrace
    /\ \E i \in 1..TRACE_HEX_LEN : ForeignTrace[i] \in {"a", "b", "c", "d", "e", "f"}
    /\ \E tp \in Topics :
            /\ topics[tp] # <<>>
            /\ topics[tp][Len(topics[tp])].trace_ctx = lastWrite["main"].trace_ctx



\* C31: a take runs its callback on at most MAX_SAMPLES messages, the
\* messages dds_take did not hand over stay in the topic in their order for a
\* later take, and a take whose callbacks come to their end is left
C31_TakeHandlesBoundedBatch ==
    /\ [](\A t \in Threads :
            /\ \A k \in 1..Len(stack[t]) :
                    /\ stack[t][k].valid <= MAX_SAMPLES
                    /\ stack[t][k].handled + DataCount(stack[t][k].rest) = stack[t][k].valid
            /\ lastTake[t].handled <= MAX_SAMPLES
            /\ lastTake[t].exit = "return" => lastTake[t].result <= MAX_SAMPLES)
    /\ [][\A tp \in Topics :
            topics'[tp] # topics[tp] =>
                \E n \in 1..MAX_SAMPLES : topics'[tp] = SubSeq(topics[tp], n + 1, Len(topics[tp]))]_vars
    /\ \A t \in Threads : InHandler(t) ~> ~InHandler(t)

\* a take of a topic holding one message more than MAX_SAMPLES ran the callback
\* MAX_SAMPLES times and returned, and the last message is still in the topic
C31_Witness ==
    /\ lastTake["main"].exit = "return"
    /\ lastTake["main"].result = MAX_SAMPLES
    /\ topics["MissionOrderTopic"] = <<SensorTrack(MAX_SAMPLES + 1)>>

\* a pass of the loop of main runs from the dds_take to the window check
FusionPolled == fusion.pc = "poll" /\ env' = env

\* C32: a pass of the fusion loop that finds the window elapsed and nothing
\* collected skips the fusion: it starts no span, ends none, publishes no
\* tactical track, and leaves the window start and the track number alone
C32_EmptyWindowIsSkipped ==
    [][/\ FusionPolled
       /\ env.clock - fusion.last_fusion_time >= FUSION_WINDOW_SEC
       /\ fusion'.collected_tracks = <<>>
       => /\ fusion'.pc = "poll"
          /\ fusion'.last_fusion_time = fusion.last_fusion_time
          /\ fusion'.tactical_track_num = fusion.tactical_track_num
          /\ UNCHANGED <<spans, scopes, nextSpan, nextTrace>>
          /\ exported' = <<>>
          /\ topics'["TacticalTrackTopic"] = topics["TacticalTrackTopic"]
          /\ ~lastWrite'["main"].called]_vars

\* main passed the window check after the window had elapsed with nothing
\* collected, and has fused nothing so far
C32_Witness ==
    /\ fusion.pc = "poll"
    /\ fusion.now - fusion.last_fusion_time >= FUSION_WINDOW_SEC
    /\ fusion.collected_tracks = <<>>
    /\ fusion.tactical_track_num = 1 /\ fusion.last_fusion_time = 0
    /\ nextSpan = 0 /\ topics["TacticalTrackTopic"] = <<>>

\* C33: write and take run only after an initialization has completed: in
\* every state from which a write, a take or a callback's return takes a step,
\* the static AutoInit is constructed, the body of do_init has run, and
\* g_tracer is set, also once do_shutdown has been called
C33_TracerSetBeforeUse ==
    [][progVars' # progVars =>
            /\ init.guard = "done"
            /\ init.runs >= 1
            /\ init.g_tracer = "tracer"]_vars

\* a thread that constructed nothing wrote, with an object the other thread
\* constructed, after do_shutdown; the tracer handle is as do_init left it
C33_Witness ==
    /\ Wrote("worker")
    /\ init.uses["worker"] = 0 /\ init.uses["main"] > 0
    /\ init.shutdowns > 0 /\ ~init.g_initialized
    /\ init.g_tracer = "tracer"


\* C34: the publish span of every Writer::write made inside a Reader::take
\* handler has the subscriber span of that handler as its parent and belongs
\* to its trace; of two writes made one after the other in one handler the
\* second is a sibling of the first, never its child.
C34_HandlerWritesAreSiblings ==
    /\ [](\A t \in Threads :
            InHandler(t) /\ Wrote(t) =>
                /\ lastWrite[t].span.parent = spans[Top(t).span].span_id
                /\ lastWrite[t].span.trace_id = spans[Top(t).span].trace_id)
    /\ [][\A t \in Threads :
            (/\ InHandler(t) /\ Wrote(t)
             /\ lastWrite'[t].called
             /\ stack'[t] = stack[t]
             /\ nextSpan' = nextSpan + 1) =>
                /\ lastWrite'[t].span.parent = lastWrite[t].span.parent
                /\ lastWrite'[t].span.parent # lastWrite[t].span.span_id
                /\ lastWrite'[t].span.span_id # lastWrite[t].span.span_id]_vars


\* C35: in a batch of messages of different traces every callback is started
\* with the active context of its own message (the trace id the message
\* carries), and a write made inside the callback of a message sends that
\* message's trace id, never the trace id of another message of the batch.
C35_BatchHandlersKeepOwnTrace ==
    /\ [][\A t \in Threads :
            HandlerStarted(t) =>
                g_active_trace_id'[t] = stack'[t][Len(stack'[t])].msg.trace_ctx.trace_id]_vars
    /\ [](\A t \in Threads :
            InHandler(t) /\ Wrote(t) =>
                /\ lastWrite[t].trace_ctx.trace_id = Top(t).msg.trace_ctx.trace_id
                /\ \A k \in 1..Len(Top(t).rest) :
                        Top(t).rest[k].trace_ctx.trace_id # Top(t).msg.trace_ctx.trace_id =>
                            lastWrite[t].trace_ctx.trace_id # Top(t).rest[k].trace_ctx.trace_id)

\* C36: on every thread the two slots of the active context are both empty
\* or both set; when set they hold a trace id of 32 characters and a span id
\* of 16 characters, and whenever a step changes them it either empties both
\* or sets both from one span, the live span of the callback it starts.
C36_ActiveContextSlotsAgree ==
    /\ [](\A t \in Threads :
            \/ ActiveContext(t) = <<(<<>>), (<<>>)>>
            \/ /\ Len(g_active_trace_id[t]) = TRACE_HEX_LEN
               /\ Len(g_active_span_id[t]) = SPAN_HEX_LEN)
    /\ [][\A t \in Threads :
            ActiveContext(t)' # ActiveContext(t) =>
                \/ ActiveContext(t)' = <<(<<>>), (<<>>)>>
                \/ /\ HandlerStarted(t)
                   /\ \E k \in DOMAIN spans' :
                        /\ k = stack'[t][Len(stack'[t])].span
                        /\ spans'[k].thread = t /\ ~spans'[k].ended
                        /\ g_active_trace_id'[t] = trace_id_to_hex(spans'[k].trace_id)
                        /\ g_active_span_id'[t] = span_id_to_hex(spans'[k].span_id)]_vars

\* a thread is left with both slots set by a callback that raised while the
\* other thread's slots are empty
C36_Witness ==
    /\ ~InHandler("worker")
    /\ lastTake["worker"].exit = "raise"
    /\ Len(g_active_trace_id["worker"]) = TRACE_HEX_LEN
    /\ Len(g_active_span_id["worker"]) = SPAN_HEX_LEN
    /\ ActiveContext("main") = <<(<<>>), (<<>>)>>

\* C37: every message a hand-wired service sends carries the trace id and
\* the span id of the span the service started for the incoming message,
\* whatever context the incoming message holds.
C37_LegacyMessageCarriesItsSpan ==
    \A t \in Threads :
        Wrote(t) /\ lastWrite[t].sent =>
            /\ lastWrite[t].trace_ctx.trace_id = trace_id_to_hex(lastWrite[t].span.trace_id)
            /\ lastWrite[t].trace_ctx.span_id = span_id_to_hex(lastWrite[t].span.span_id)


\* the fuse spans among the spans exported by the last step
FusedLinks ==
    {exported[i].links : i \in {k \in 1..Len(exported) : "links" \in DOMAIN exported[k]}}

\* C38: every pass of the loop appends exactly the source tracks it took to
\* collected_tracks and keeps the ones collected before; the fuse span of a
\* fusion links exactly the tracks collected up to then; nothing is taken or
\* collected while the fusion publishes; the end of the fusion empties the
\* list and exports the fuse span with the links of the tracks it clears; and
\* no track is in the list twice.
C38_TracksLinkedExactlyOnce ==
    /\ [](\A i, j \in 1..Len(fusion.collected_tracks) :
            fusion.collected_tracks[i] = fusion.collected_tracks[j] => i = j)
    /\ [][/\ FusionPolled =>
                /\ fusion'.collected_tracks = fusion.collected_tracks \o
                        [k \in 1..(Len(topics["SourceTrackTopic"]) -
                                    Len(topics'["SourceTrackTopic"])) |->
                            TrackLink(topics["SourceTrackTopic"][k])]
                /\ (fusion'.pc = "publish" =>
                        spans'[fusion'.fuse_span].links = fusion'.collected_tracks)
          /\ (fusion.pc = "publish" /\ fusion'.pc = "publish") =>
                /\ fusion'.collected_tracks = fusion.collected_tracks
                /\ Len(topics'["SourceTrackTopic"]) >= Len(topics["SourceTrackTopic"])
          /\ (fusion.pc = "publish" /\ fusion'.pc = "poll") =>
                /\ fusion'.collected_tracks = <<>>
                /\ FusedLinks' = {fusion.collected_tracks}]_vars

\* the second fusion has ended: it linked the third source track only, the
\* first fusion having linked and cleared the two before it
C38_Witness ==
    /\ fusion.pc = "poll"
    /\ fusion.tactical_track_num = 3
    /\ fusion.collected_tracks = <<>>
    /\ FusedLinks = {<<TrackLink(SensorTrack(3))>>}


\* C39: a fusion whose writer.write failed still ends the publish span and
\* the fuse span, empties collected_tracks, advances the tactical track
\* number and restarts the window at the time the fusion began; nothing is
\* written to the tactical-track topic in its place.
C39_FailedFusionIsNotRetried ==
    [][(fusion.pc = "publish" /\ fusion'.pc = "poll" /\ ~lastWrite["main"].result) =>
            /\ Len(exported') = 2
            /\ exported'[1].span_id = spans[fusion.pub_span].span_id /\ exported'[1].ended
            /\ exported'[2].span_id = spans[fusion.fuse_span].span_id /\ exported'[2].ended
            /\ spans' = <<>>
            /\ scopes'["main"] = <<>>
            /\ fusion'.collected_tracks = <<>>
            /\ fusion'.tactical_track_num = fusion.tactical_track_num + 1
            /\ fusion'.last_fusion_time = fusion.now
            /\ fusion'.emitted = FALSE
            /\ topics'["TacticalTrackTopic"] = topics["TacticalTrackTopic"]
            /\ ~lastWrite'["main"].called]_vars

\* after a fusion whose write failed the loop is back at its top with
\* nothing collected, the next track number and no tactical track sent
C39_Witness ==
    /\ fusion.pc = "poll"
    /\ fusion.tactical_track_num = 2
    /\ fusion.emitted = FALSE
    /\ fusion.collected_tracks = <<>>
    /\ fusion.last_fusion_time >= FUSION_WINDOW_SEC
    /\ topics["TacticalTrackTopic"] = <<>>
    /\ Len(exported) = 2

====
